---- MODULE Spec2Model ----
(***************************************************************************)
(* Metatile-to-atlas compilation of porycon (MonoBall-v2): the metatile     *)
(* renderer, the per-map GID deduplication, the layer distribution and the  *)
(* metatile animation builder, as state machines.                           *)
(*                                                                          *)
(* Images are modelled pixel by pixel on a reduced raster: a tile is        *)
(* TileDim x TileDim pixels (8 x 8 in the code), a metatile image is        *)
(* 2*TileDim square, a pixel is <<r, g, b, a>>.                             *)
(***************************************************************************)
EXTENDS Integers, Sequences, FiniteSets, TLC

(* ---------------------------------------------------------------------- *)
(* Program constants (constants.py)                                        *)
(* ---------------------------------------------------------------------- *)
NUM_METATILES_IN_PRIMARY == 512
NUM_TILES_IN_PRIMARY_VRAM == 512
NUM_TILES_PER_METATILE == 8
METATILE_ID_MASK == 1023
FLIP_HORIZONTAL == 1
FLIP_VERTICAL == 2
TILES_PER_ROW_DEFAULT == 16

(* MetatileLayerType (metatile.py) *)
NORMAL == 0
COVERED == 1
SPLIT == 2

(* ---------------------------------------------------------------------- *)
(* Bounds of the model                                                     *)
(* ---------------------------------------------------------------------- *)
\* edge of a tile in pixels (TILE_SIZE = 8 in the code)
TileDim == 2
\* number of colour indices the fixture rasters use (0 .. NumIdx-1)
NumIdx == 3
\* largest width and height of a compiled map, in metatiles
MaxWidth == 2
MaxHeight == 2
\* largest number of different entries in the grid of a compiled map
MaxDistinct == 2
\* largest width and height a layout file gives
MaxLayoutDim == 4
\* largest size of a map.bin file, in bytes
MaxFileLen == 9
\* largest update interval tileset_anims.c gives, in frames
MaxInterval == 16
\* largest max_cache_size of a MetatileRenderer
MaxCacheSize == 2
\* largest number of load calls on a MetatileRenderer
MaxCalls == 5
\* largest number of maps a batch converts
MaxMaps == 3
\* largest number of maps a worker converted before the one in hand
MaxSeries == 2
\* largest number of characters of a tileset name
MaxNameLen == 2
\* largest number of tilesets, and of map files, handled in the second phase
MaxTilesets == 2

MetaDim == 2 * TileDim

(* ---------------------------------------------------------------------- *)
(* Images (PIL.Image as used by the code)                                  *)
(* ---------------------------------------------------------------------- *)
Transparent == <<0, 0, 0, 0>>
Magenta == <<255, 0, 255, 255>>

\* a sequence given by a function constructor, as an explicit tuple
List(s) == SubSeq(s, 1, Len(s))

\* an image given by function constructors, as explicit rows of pixels
RECURSIVE RowsFrom(_, _)
RowsFrom(img, k) ==
    IF k > Len(img) THEN <<>> ELSE <<List(img[k])>> \o RowsFrom(img, k + 1)
Pixels(img) == RowsFrom(img, 1)

\* Image.new(mode, (w, h), c)
NewImage(w, h, c) == Pixels([y \in 1..h |-> [x \in 1..w |-> c]])

ImgHeight(img) == Len(img)
ImgWidth(img) == IF Len(img) = 0 THEN 0 ELSE Len(img[1])

\* img.transpose(Image.FLIP_LEFT_RIGHT)
FlipLR(img) ==
    Pixels([y \in 1..ImgHeight(img) |->
               [x \in 1..ImgWidth(img) |-> img[y][ImgWidth(img) + 1 - x]]])

\* img.transpose(Image.FLIP_TOP_BOTTOM)
FlipTB(img) ==
    Pixels([y \in 1..ImgHeight(img) |-> img[ImgHeight(img) + 1 - y]])

\* dst.paste(src, (x0, y0), src): src's alpha band is the mask, so only the
\* opaque pixels of src replace pixels of dst.
Paste(dst, src, x0, y0) ==
    Pixels([y \in 1..ImgHeight(dst) |->
               [x \in 1..ImgWidth(dst) |->
                   IF /\ (y - y0) \in 1..ImgHeight(src)
                      /\ (x - x0) \in 1..ImgWidth(src)
                      /\ src[y - y0][x - x0][4] # 0
                   THEN src[y - y0][x - x0]
                   ELSE dst[y][x]]])

\* img.crop((x0, y0, x0 + w, y0 + h))
Crop(img, x0, y0, w, h) ==
    Pixels([y \in 1..h |-> [x \in 1..w |-> img[y0 + y][x0 + x]]])

RECURSIVE Flatten(_)
Flatten(rows) ==
    IF rows = <<>> THEN <<>> ELSE Head(rows) \o Flatten(Tail(rows))

\* img.tobytes(): the rows, left to right, each pixel as its four channels
ToBytes(img) == Flatten(Flatten(img))

EmptyMetatileImage == NewImage(MetaDim, MetaDim, Transparent)

(* ---------------------------------------------------------------------- *)
(* The tile banks on disk (the input directory)                            *)
(* ---------------------------------------------------------------------- *)
PrimaryName == "General"
SecondaryName == "Rustboro"
BankNames == {PrimaryName, SecondaryName}

\* colour index of pixel (px, py) of a bank's tiles.png (0-based pixels)
RasterPixel(name, px, py) ==
    LET idx == (py \div TileDim) * TILES_PER_ROW_DEFAULT + (px \div TileDim)
        off == IF name = PrimaryName THEN 0 ELSE 1
    IN  (idx + (px % TileDim) + TileDim * (py % TileDim) + off) % NumIdx

\* colour i of palette file <slot>.pal of a bank, as load_palette returns it
PalColor(name, slot, i) ==
    IF name = SecondaryName /\ slot = 7 /\ i = 2
    THEN Magenta
    ELSE <<(IF name = PrimaryName THEN 100 ELSE 200) + slot, 10 * i, 50, 255>>

\* colour i of the palette embedded in a bank's tiles.png
EmbeddedColor(name, i) ==
    <<(IF name = PrimaryName THEN 1 ELSE 2), 10 * i, 60>>
VARIABLES
    banks,          \* the tile banks found in the input directory
    r_tiles,        \* _render_tile_grid: its 4 (tile_id, flip, palette) tuples
    r_pc,           \* _render_tile_grid: "idle", "call" or "done"
    grid_image,     \* _render_tile_grid: the image it returned
    width,          \* layout["width"]
    height,         \* layout["height"]
    map_entries,    \* map.bin as read_map_bin returns it: rows of u16 entries
    border_data,    \* the u16 entries of border.bin (<<>>: no such file)
    anim_files,     \* how the frame files of the catalog are stored on disk
    pc,             \* position of convert_map_with_metatiles
    cell,           \* _process_metatiles: number of grid cells already processed
    used_metatiles,     \* (id, tileset, layer type) -> (bottom_img, top_img)
    metatile_to_gid,    \* (id, tileset, layer type, is_top) -> GID
    tile_id_to_gids,    \* (tile_id, tileset) -> list of (layer_gid, key, position)
    metatile_composition, \* (id, tileset, layer type) -> the 8 tile tuples
    image_to_gid,       \* image bytes -> GID
    next_gid,           \* next GID to hand out
    border_gids,        \* corner name -> GID
    layers,             \* layer_data_bg3 / bg2 / bg1 and used_gids
    tileset_image,      \* the atlas: its 16x16 slots, in tile index order
    animations,         \* the "tiles" list of the tileset: id and animation
    tiled_map,          \* the returned map: named layers and border property
    maps,               \* main: the ids of the maps found (the submitted tasks)
    futures,            \* main: map id -> outcome of its future, once completed
    yielded,            \* main: the futures as_completed has yielded so far
    handled,            \* main: map id -> number of times its outcome was handled
    converted,          \* main: counter of successful maps
    skipped_layout,     \* main: counter of maps whose layout was not found
    skipped_other,      \* main: counter of the other maps
    skipped_maps,       \* main: list of (map id, reason)
    world_builder_data, \* main: the world data of the converted maps
    all_used_tiles,     \* main: tileset names of the merged used-tile aggregates
    b_pc,               \* main: "idle", "results" (the result loop) or "merged"
    used_tiles,         \* main: the tileset names that are keys of used_tiles
    ts_pc,              \* main: tileset name -> step of its create_tiled_tileset task
    map_files,          \* main: the map files found for remapping
    rm_pc,              \* main: map file -> step of its remap task
    writes,             \* the files written: (phase, task, path)
    p_pc,               \* main: "idle", "tilesets", "remap" or "end"
    w_args,             \* convert_single_map: its args_tuple
    w_cond,             \* convert_single_map: what the task meets on disk
    w_out,              \* convert_single_map: what the call gave
    w_pc,               \* convert_single_map: "idle", "call" or "done"
    maps_before,        \* number of maps the worker process converted before
    map_bin,            \* the bytes of the map.bin file of the layout
    layout_width,       \* layout["width"] as the layout file gives it
    layout_height,      \* layout["height"] as the layout file gives it
    rd_out,             \* _read_and_validate_map_data: what its reads gave
    anims_c,            \* src/tileset_anims.c as the patterns of the scanner see it
    tileset_anim_durations, \* AnimationScanner: "tileset_anim" -> duration_ms
    anim_result,        \* extract_all_animation_tiles: animation -> duration_ms
    sc_pc,              \* AnimationScanner: "idle", "init", "parsed" or "extracted"
    max_cache_size,     \* MetatileRenderer: its max_cache_size
    tileset_cache,      \* MetatileRenderer._tileset_cache, in the order of the dict
    palette_cache,      \* MetatileRenderer._palette_cache, in the order of the dict
    last_call,          \* the last load call: cache, name, hit, result, evicted
    calls               \* per cache, the names loaded so far, oldest first

\* main() and convert_single_map at rest
batch_vars == <<maps, futures, yielded, handled, converted, skipped_layout,
                skipped_other, skipped_maps, world_builder_data, all_used_tiles, b_pc,
                used_tiles, ts_pc, map_files, rm_pc, writes, p_pc>>
phase_vars == <<used_tiles, ts_pc, map_files, rm_pc, writes, p_pc>>
PhaseIdle ==
    /\ used_tiles = {}
    /\ ts_pc = <<>>
    /\ map_files = {}
    /\ rm_pc = <<>>
    /\ writes = {}
    /\ p_pc = "idle"
worker_vars == <<w_args, w_cond, w_out, w_pc, maps_before>>
BatchIdle ==
    /\ maps = {}
    /\ futures = <<>>
    /\ yielded = {}
    /\ handled = <<>>
    /\ converted = 0
    /\ skipped_layout = 0
    /\ skipped_other = 0
    /\ skipped_maps = <<>>
    /\ world_builder_data = <<>>
    /\ all_used_tiles = {}
    /\ b_pc = "idle"
    /\ PhaseIdle
read_vars == <<map_bin, layout_width, layout_height, rd_out>>
\* the grid of the map is given as read_map_bin returned it
ReadIdle ==
    /\ map_bin = <<>>
    /\ layout_width = 0
    /\ layout_height = 0
    /\ rd_out = <<>>
WorkerIdle ==
    /\ w_args = <<>>
    /\ w_cond = <<>>
    /\ w_out = <<>>
    /\ w_pc = "idle"
    /\ maps_before = 0

scan_vars == <<anims_c, tileset_anim_durations, anim_result, sc_pc>>
ScanIdle ==
    /\ anims_c = <<>>
    /\ tileset_anim_durations = <<>>
    /\ anim_result = <<>>
    /\ sc_pc = "idle"
cache_vars == <<max_cache_size, tileset_cache, palette_cache, last_call, calls>>
CacheIdle ==
    /\ max_cache_size = 0
    /\ tileset_cache = <<>>
    /\ palette_cache = <<>>
    /\ last_call = <<>>
    /\ calls = <<>>
tool_vars == <<scan_vars, cache_vars>>
ToolsIdle == ScanIdle /\ CacheIdle
\* banks.rows[name]    : tile rows of tiles.png (0: the file is missing)
\* banks.pal[name]     : the 16 palette slots, TRUE where the .pal file loads;
\*                       <<>> when the bank's directory is not found
\* banks.trns[name]    : tiles.png declares colour index 0 transparent (tRNS)
AllSlots == [s \in 1..16 |-> TRUE]
DefaultBanks ==
    [rows |-> [n \in BankNames |-> IF n = PrimaryName THEN 32 ELSE 9],
     pal  |-> [n \in BankNames |->
                 IF n = PrimaryName
                 THEN [s \in 1..16 |-> s # 4]
                 ELSE [s \in 1..16 |-> s # 16]],
     trns |-> [n \in BankNames |-> FALSE]]

(* ---------------------------------------------------------------------- *)
(* palette_loader.py                                                       *)
(* ---------------------------------------------------------------------- *)
\* tile.convert('RGBA') of a 'P' tile: the embedded palette, alpha 255 unless
\* the file declares index 0 transparent
ConvertRGBA(tile, name, b) ==
    Pixels([y \in 1..ImgHeight(tile) |->
               [x \in 1..ImgWidth(tile) |->
                   EmbeddedColor(name, tile[y][x])
                     \o <<IF tile[y][x] = 0 /\ b.trns[name] THEN 0 ELSE 255>>]])

\* apply_palette_to_tile(tile, palette) for a loaded 16-colour palette
apply_palette_to_tile(tile, palName, slot) ==
    Pixels([y \in 1..ImgHeight(tile) |->
               [x \in 1..ImgWidth(tile) |->
                   IF tile[y][x] = 0 THEN Transparent
                   ELSE IF /\ PalColor(palName, slot, tile[y][x])[1] = 255
                           /\ PalColor(palName, slot, tile[y][x])[2] = 0
                           /\ PalColor(palName, slot, tile[y][x])[3] = 255
                        THEN Transparent
                        ELSE PalColor(palName, slot, tile[y][x])]])

(* ---------------------------------------------------------------------- *)
(* metatile_renderer.py                                                    *)
(* ---------------------------------------------------------------------- *)
\* load_tileset_image: TRUE when tiles.png of the bank is found
HasTilesetImage(name, b) == name \in DOMAIN b.rows /\ b.rows[name] > 0

\* max_tile_id = tiles_per_row * tiles_per_col - 1
MaxTileId(name, b) == TILES_PER_ROW_DEFAULT * b.rows[name] - 1

\* extract_tile(tileset_image, tile_id): the tile, still colour indices
extract_tile(name, tile_id) ==
    LET tile_x == (tile_id % TILES_PER_ROW_DEFAULT) * TileDim
        tile_y == (tile_id \div TILES_PER_ROW_DEFAULT) * TileDim
    IN  Pixels([y \in 1..TileDim |->
                   [x \in 1..TileDim |->
                       RasterPixel(name, tile_x + x - 1, tile_y + y - 1)]])

NoSource == [found |-> FALSE, tileset |-> "", tile |-> 0]

\* a tile id out of the bounds of its bank given up without trying the primary
ResolveOutOfBoundsGivesUp(tileset_name, actual_tile_id, use_fallback, primary, b) ==
    NoSource

\* the fallback of a tile id out of the bounds of its bank
ResolveOutOfBounds(tileset_name, actual_tile_id, use_fallback, primary, b) ==
    IF use_fallback /\ tileset_name # primary
    THEN IF HasTilesetImage(primary, b)
         THEN IF 0 <= actual_tile_id /\ actual_tile_id <= MaxTileId(primary, b)
              THEN [found |-> TRUE, tileset |-> primary, tile |-> actual_tile_id]
              ELSE NoSource
         ELSE NoSource
    ELSE NoSource

\* bounds validation of a tile id in a bank whose image was found
ResolveInImage(tileset_name, actual_tile_id, use_fallback, primary, b) ==
    IF actual_tile_id < 0 \/ actual_tile_id > MaxTileId(tileset_name, b)
    THEN ResolveOutOfBounds(tileset_name, actual_tile_id, use_fallback, primary, b)
    ELSE [found |-> TRUE, tileset |-> tileset_name, tile |-> actual_tile_id]

\* the fallback of a bank whose image is missing, keeping the VRAM slot as the
\* index instead of the offset into the bank
ResolveMissingImageKeepsSlot(tile_id, tileset_name, use_fallback, primary, b) ==
    IF use_fallback /\ tileset_name # primary
    THEN IF HasTilesetImage(primary, b)
         THEN ResolveInImage(primary, tile_id,
                             FALSE, primary, b)
         ELSE NoSource
    ELSE NoSource

\* the fallback of a bank whose image is missing
ResolveMissingImage(tile_id, tileset_name, use_fallback, primary, b) ==
    IF use_fallback /\ tileset_name # primary
    THEN IF HasTilesetImage(primary, b)
         THEN ResolveInImage(primary, tile_id - NUM_TILES_IN_PRIMARY_VRAM,
                             FALSE, primary, b)
         ELSE NoSource
    ELSE NoSource

\* which bank and which index of it supply the pixels of a tile id
ResolveRaster(tile_id, primary, secondary, b) ==
    LET tileset_name == IF tile_id < NUM_TILES_IN_PRIMARY_VRAM
                        THEN primary ELSE secondary
        actual_tile_id == IF tile_id < NUM_TILES_IN_PRIMARY_VRAM
                          THEN tile_id
                          ELSE tile_id - NUM_TILES_IN_PRIMARY_VRAM
        use_fallback == ~(tile_id < NUM_TILES_IN_PRIMARY_VRAM)
    IN  IF ~HasTilesetImage(tileset_name, b)
        THEN ResolveMissingImage(tile_id, tileset_name, use_fallback, primary, b)
        ELSE ResolveInImage(tileset_name, actual_tile_id, use_fallback, primary, b)

\* the palette bank switching at slot 12 instead of slot 6
PaletteSourceSplitAt12(palette_index, primary, secondary) ==
    IF palette_index >= 12 /\ secondary # "" THEN secondary ELSE primary

\* the bank whose palettes colour a tile
PaletteSource(palette_index, primary, secondary) ==
    IF palette_index >= 6 /\ secondary # "" THEN secondary ELSE primary

\* the palette step: the loaded palette of the slot, else the embedded one
ColourTile(tile, rasterName, palName, palette_index, b) ==
    LET palettes == b.pal[palName]
    IN  IF /\ Len(palettes) > 0
           /\ 0 <= palette_index /\ palette_index < Len(palettes)
           /\ palettes[palette_index + 1]
        THEN apply_palette_to_tile(tile, palName, palette_index)
        ELSE ConvertRGBA(tile, rasterName, b)

\* the flip step
FlipTile(tile, flip_flags) ==
    LET h == IF (flip_flags \div FLIP_HORIZONTAL) % 2 = 1 THEN FlipLR(tile) ELSE tile
    IN  IF (flip_flags \div FLIP_VERTICAL) % 2 = 1 THEN FlipTB(h) ELSE h

\* positions[idx] of the four quadrants, idx = 1..4
QuadX(idx) == ((idx - 1) % 2) * TileDim
QuadY(idx) == ((idx - 1) \div 2) * TileDim

\* one iteration of the loop that draws tile id 0 like any other tile
RenderQuadrantDrawsTileZero(grid, idx, t, primary, secondary, b) ==
    LET src == ResolveRaster(t[1], primary, secondary, b)
    IN  IF ~src.found THEN grid
        ELSE Paste(grid,
                   FlipTile(ColourTile(extract_tile(src.tileset, src.tile),
                                       src.tileset,
                                       PaletteSource(t[3], primary, secondary),
                                       t[3], b),
                            t[2]),
                   QuadX(idx), QuadY(idx))

\* one iteration of the loop of _render_tile_grid
RenderQuadrant(grid, idx, t, primary, secondary, b) ==
    IF t[1] = 0 THEN grid
    ELSE LET src == ResolveRaster(t[1], primary, secondary, b)
         IN  IF ~src.found THEN grid
             ELSE Paste(grid,
                        FlipTile(ColourTile(extract_tile(src.tileset, src.tile),
                                            src.tileset,
                                            PaletteSource(t[3], primary, secondary),
                                            t[3], b),
                                 t[2]),
                        QuadX(idx), QuadY(idx))

RECURSIVE RenderLoop(_, _, _, _, _, _)
RenderLoop(grid, idx, tiles, primary, secondary, b) ==
    IF idx > Len(tiles) THEN grid
    ELSE RenderLoop(RenderQuadrant(grid, idx, tiles[idx], primary, secondary, b),
                    idx + 1, tiles, primary, secondary, b)

\* _render_tile_grid(tiles, primary, secondary); <<>> stands for None
render_tile_grid(tiles, primary, secondary, b) ==
    IF Len(tiles) # 4 THEN <<>>
    ELSE RenderLoop(EmptyMetatileImage, 1, tiles, primary, secondary, b)

\* render_metatile(metatile_tiles, primary, secondary, layer_type):
\* <<bottom_image, top_image>>
render_metatile(metatile_tiles, primary, secondary, layer_type, b) ==
    IF Len(metatile_tiles) # NUM_TILES_PER_METATILE THEN <<<<>>, <<>>>>
    ELSE <<render_tile_grid(SubSeq(metatile_tiles, 1, 4), primary, secondary, b),
           render_tile_grid(SubSeq(metatile_tiles, 5, 8), primary, secondary, b)>>

(* ---------------------------------------------------------------------- *)
(* Python dicts: insertion-ordered lists of <<key, value>>                 *)
(* ---------------------------------------------------------------------- *)
DictHas(d, k) == \E i \in 1..Len(d) : d[i][1] = k
DictGet(d, k, default) ==
    IF DictHas(d, k) THEN d[CHOOSE i \in 1..Len(d) : d[i][1] = k][2] ELSE default
DictPut(d, k, v) ==
    IF DictHas(d, k)
    THEN List([i \in 1..Len(d) |-> IF d[i][1] = k THEN <<k, v>> ELSE d[i]])
    ELSE Append(d, <<k, v>>)
RECURSIVE DictUpdate(_, _)
DictUpdate(d, e) ==
    IF e = <<>> THEN d ELSE DictUpdate(DictPut(d, e[1][1], e[1][2]), Tail(e))
DictValues(d) == {d[i][2] : i \in 1..Len(d)}

(* ---------------------------------------------------------------------- *)
(* The metatile tables on disk, as map_reader.py returns them              *)
(* ---------------------------------------------------------------------- *)
\* metatiles.bin of the primary bank: 8 (tile_id, flip_flags, palette_index)
\* per metatile, bottom half first; the file ends inside metatile 6
PrimaryMetatiles ==
    \* 0: a flipped flower tile in the bottom half, nothing on top
       <<<<508, 1, 0>>, <<1, 0, 0>>, <<0, 0, 0>>, <<2, 0, 1>>,
         <<0, 0, 0>>, <<0, 0, 0>>, <<0, 0, 0>>, <<0, 0, 0>>>>
    \* 1: static
    \o <<<<1, 0, 0>>, <<1, 1, 0>>, <<1, 2, 0>>, <<1, 3, 0>>,
         <<2, 0, 1>>, <<0, 0, 0>>, <<0, 0, 0>>, <<0, 0, 0>>>>
    \* 2: waterfall tiles in both halves
    \o <<<<496, 0, 2>>, <<0, 0, 0>>, <<0, 0, 0>>, <<1, 0, 0>>,
         <<497, 1, 2>>, <<0, 0, 0>>, <<0, 0, 0>>, <<0, 0, 0>>>>
    \* 3: the tiles of metatile 1
    \o <<<<1, 0, 0>>, <<1, 1, 0>>, <<1, 2, 0>>, <<1, 3, 0>>,
         <<2, 0, 1>>, <<0, 0, 0>>, <<0, 0, 0>>, <<0, 0, 0>>>>
    \* 4: its attribute is not a layer type
    \o <<<<2, 0, 0>>, <<0, 0, 0>>, <<0, 0, 0>>, <<0, 0, 0>>,
         <<0, 0, 0>>, <<0, 0, 0>>, <<0, 0, 0>>, <<3, 0, 0>>>>
    \* 5: every tile id is 0
    \o <<<<0, 0, 0>>, <<0, 0, 0>>, <<0, 0, 0>>, <<0, 0, 0>>,
         <<0, 0, 0>>, <<0, 0, 0>>, <<0, 0, 0>>, <<0, 0, 0>>>>
    \* 6: truncated
    \o <<<<1, 0, 0>>, <<1, 0, 0>>, <<1, 0, 0>>, <<1, 0, 0>>>>

\* metatiles.bin of the secondary bank
SecondaryMetatiles ==
    \* 512: a windy-water tile of the secondary bank, tiles of both banks
       <<<<640, 0, 6>>, <<513, 1, 7>>, <<1, 0, 6>>, <<712, 0, 0>>,
         <<641, 2, 6>>, <<0, 0, 0>>, <<0, 0, 0>>, <<508, 0, 0>>>>
    \* 513: no animated tile; tile 502 has the pixels of the waterfall tile
    \* 496, so that the bottom half has the pixels of that of metatile 2
    \o <<<<502, 0, 2>>, <<0, 0, 0>>, <<0, 0, 0>>, <<1, 0, 0>>,
         <<1, 0, 0>>, <<0, 0, 0>>, <<0, 0, 0>>, <<0, 0, 0>>>>
    \* 514: the same waterfall tile in both halves
    \o <<<<497, 0, 2>>, <<0, 0, 0>>, <<0, 0, 0>>, <<0, 0, 0>>,
         <<497, 0, 2>>, <<0, 0, 0>>, <<0, 0, 0>>, <<0, 0, 0>>>>

\* metatile_attributes.bin: the layer type bits, one entry per metatile
PrimaryAttributes == <<NORMAL, COVERED, SPLIT, NORMAL, 3, COVERED>>
\* (the secondary table has entries for metatiles 512 to 514, and for 515,
\* which the composition table does not hold)
SecondaryAttributes == <<NORMAL, NORMAL, NORMAL, 5>>

\* attributes.get(actual_metatile_id, 0)
AttrGet(attributes, actual_metatile_id) ==
    IF actual_metatile_id + 1 \in 1..Len(attributes)
    THEN attributes[actual_metatile_id + 1] ELSE 0

\* metatiles_with_attrs[start:start + n], clipped as a Python slice is
Slice(list, start, n) ==
    IF start >= Len(list) THEN <<>>
    ELSE SubSeq(list, start + 1, IF start + n > Len(list) THEN Len(list) ELSE start + n)

\* extract_metatile_id(entry)
extract_metatile_id(entry) == entry % (METATILE_ID_MASK + 1)

\* the layer types MetatileLayerType(...) accepts; any other value raises
LayerTypes == {NORMAL, COVERED, SPLIT}

(* ---------------------------------------------------------------------- *)
(* metatile_processor.py                                                   *)
(* ---------------------------------------------------------------------- *)
determine_tileset_for_metatile(metatile_id, primary, secondary) ==
    IF metatile_id < NUM_METATILES_IN_PRIMARY
    THEN <<primary, metatile_id>>
    ELSE <<secondary, metatile_id - NUM_METATILES_IN_PRIMARY>>

determine_tileset_for_tile(tile_id, current_tileset_name, primary, secondary) ==
    IF current_tileset_name = primary THEN <<primary, tile_id>>
    ELSE IF tile_id < NUM_TILES_IN_PRIMARY_VRAM
         THEN <<primary, tile_id>>
         ELSE <<secondary, tile_id - NUM_TILES_IN_PRIMARY_VRAM>>

validate_metatile_bounds(actual_metatile_id, metatiles_with_attrs) ==
    LET start_idx == actual_metatile_id * NUM_TILES_PER_METATILE
        end_idx == start_idx + NUM_TILES_PER_METATILE
    IN  /\ actual_metatile_id >= 0
        /\ ~(\/ start_idx < 0
             \/ end_idx > Len(metatiles_with_attrs)
             \/ Len(metatiles_with_attrs) < NUM_TILES_PER_METATILE)

\* the deduplicating GID assignment without its lookup: every image is new
AssignGidAlwaysNew(bytes, i2g, n) ==
    [gid |-> n, image_to_gid |-> DictPut(i2g, bytes, n), next_gid |-> n + 1]

\* the deduplicating GID assignment handing out the counter without advancing it
AssignGidKeepsCounter(bytes, i2g, n) ==
    IF DictHas(i2g, bytes)
    THEN [gid |-> DictGet(i2g, bytes, 0), image_to_gid |-> i2g, next_gid |-> n]
    ELSE [gid |-> n, image_to_gid |-> DictPut(i2g, bytes, n), next_gid |-> n]

\* "Assign GIDs with deduplication": the GID of the image bytes, a new one
\* when the bytes were not seen before
AssignGid(bytes, i2g, n) ==
    IF DictHas(i2g, bytes)
    THEN [gid |-> DictGet(i2g, bytes, 0), image_to_gid |-> i2g, next_gid |-> n]
    ELSE [gid |-> n, image_to_gid |-> DictPut(i2g, bytes, n), next_gid |-> n + 1]

\* the two entries of metatile_to_gid of one metatile
GidPair(key, bottom_gid, top_gid) ==
    <<<<key \o <<FALSE>>, bottom_gid>>, <<key \o <<TRUE>>, top_gid>>>>

\* "Build (tile_id, tileset) -> GID mapping for animations"
RECURSIVE BuildTileIdToGids(_, _, _, _, _, _, _, _)
BuildTileIdToGids(acc, pos, metatile_tiles, key, primary, secondary, bottom_gid, top_gid) ==
    IF pos >= Len(metatile_tiles) THEN acc
    ELSE LET tile_id == metatile_tiles[pos + 1][1]
             tile_key == <<tile_id,
                           determine_tileset_for_tile(tile_id, key[2], primary, secondary)[1]>>
             layer_gid == IF pos < 4 THEN bottom_gid ELSE top_gid
         IN  BuildTileIdToGids(
                 DictPut(acc, tile_key,
                         Append(DictGet(acc, tile_key, <<>>), <<layer_gid, key, pos>>)),
                 pos + 1, metatile_tiles, key, primary, secondary, bottom_gid, top_gid)

\* process_single_metatile, bounds not valid, key not yet in used_metatiles
ProcessOutOfBoundsNew(key, used, i2g, n) ==
    LET e == AssignGid(ToBytes(EmptyMetatileImage), i2g, n)
    IN  [raised |-> FALSE,
         metatile_to_gid |-> GidPair(key, e.gid, e.gid),
         tile_id_to_gids |-> <<>>,
         metatile_tiles |-> <<>>,
         used_metatiles |-> DictPut(used, key, <<EmptyMetatileImage, EmptyMetatileImage>>),
         image_to_gid |-> e.image_to_gid,
         next_gid |-> e.next_gid]

\* process_single_metatile, bounds not valid, key already in used_metatiles
ProcessOutOfBoundsSeen(key, used, i2g, n) ==
    LET Result(bottom_gid, top_gid, i2g2, n2) ==
            [raised |-> FALSE,
             metatile_to_gid |-> GidPair(key, bottom_gid, top_gid),
             tile_id_to_gids |-> <<>>,
             metatile_tiles |-> <<>>,
             used_metatiles |-> used,
             image_to_gid |-> i2g2,
             next_gid |-> n2]
        Top(bottom_gid, top_gid, top_bytes, i2g1, n1) ==
            Result(bottom_gid, top_gid,
                   IF DictHas(i2g1, top_bytes) THEN i2g1
                   ELSE DictPut(i2g1, top_bytes, top_gid),
                   IF DictHas(i2g1, top_bytes) THEN n1 ELSE n1 + 1)
        Bottom(bottom_gid, top_gid, bottom_bytes, top_bytes) ==
            Top(bottom_gid, top_gid, top_bytes,
                IF DictHas(i2g, bottom_bytes) THEN i2g
                ELSE DictPut(i2g, bottom_bytes, bottom_gid),
                IF DictHas(i2g, bottom_bytes) THEN n ELSE n + 1)
        Bytes(bottom_bytes, top_bytes) ==
            Bottom(DictGet(i2g, bottom_bytes, n), DictGet(i2g, top_bytes, n + 1),
                   bottom_bytes, top_bytes)
        Images(imgs) == Bytes(ToBytes(imgs[1]), ToBytes(imgs[2]))
    IN  Images(DictGet(used, key, <<>>))

\* the images render_metatile returned, an empty image for a missing one
RenderedPair(r) ==
    <<IF r[1] = <<>> THEN EmptyMetatileImage ELSE r[1],
      IF r[2] = <<>> THEN EmptyMetatileImage ELSE r[2]>>

\* the GID of the bottom image, then the GID of the top image
AssignGids(imgs, i2g, n) ==
    LET Pair(bot, top) ==
            [bottom_gid |-> bot.gid, top_gid |-> top.gid,
             image_to_gid |-> top.image_to_gid, next_gid |-> top.next_gid]
        Top(bot, top_bytes) ==
            Pair(bot, AssignGid(top_bytes, bot.image_to_gid, bot.next_gid))
    IN  Top(AssignGid(ToBytes(imgs[1]), i2g, n), ToBytes(imgs[2]))

\* process_single_metatile, bounds valid: render (or take the images of the
\* key from used_metatiles), assign the two GIDs, list the tiles
ProcessInBounds(key, metatile_tiles, primary, secondary, used, i2g, n, b) ==
    LET Result(imgs, g) ==
            [raised |-> FALSE,
             metatile_to_gid |-> GidPair(key, g.bottom_gid, g.top_gid),
             tile_id_to_gids |-> BuildTileIdToGids(<<>>, 0, metatile_tiles, key,
                                     primary, secondary, g.bottom_gid, g.top_gid),
             metatile_tiles |-> metatile_tiles,
             used_metatiles |-> DictPut(used, key, imgs),
             image_to_gid |-> g.image_to_gid,
             next_gid |-> g.next_gid]
        Images(imgs) == Result(imgs, AssignGids(imgs, i2g, n))
    IN  Images(IF DictHas(used, key) THEN DictGet(used, key, <<>>)
               ELSE RenderedPair(render_metatile(metatile_tiles, primary,
                                                 secondary, key[3], b)))

\* MetatileLayerType(layer_type_val) raised ValueError: nothing was changed
Raised(used, i2g, n) ==
    [raised |-> TRUE, metatile_to_gid |-> <<>>, tile_id_to_gids |-> <<>>,
     metatile_tiles |-> <<>>, used_metatiles |-> used, image_to_gid |-> i2g,
     next_gid |-> n]

process_single_metatile(actual_metatile_id, tileset_name, metatiles_with_attrs, attributes, primary, secondary, used, i2g, n, b) ==
    LET layer_type_val == AttrGet(attributes, actual_metatile_id)
        key == <<actual_metatile_id, tileset_name, layer_type_val>>
    IN  IF layer_type_val \notin LayerTypes THEN Raised(used, i2g, n)
        ELSE IF ~validate_metatile_bounds(actual_metatile_id, metatiles_with_attrs)
        THEN IF ~DictHas(used, key)
             THEN ProcessOutOfBoundsNew(key, used, i2g, n)
             ELSE ProcessOutOfBoundsSeen(key, used, i2g, n)
        ELSE ProcessInBounds(key,
                 Slice(metatiles_with_attrs,
                       actual_metatile_id * NUM_TILES_PER_METATILE,
                       NUM_TILES_PER_METATILE),
                 primary, secondary, used, i2g, n, b)

(* ---------------------------------------------------------------------- *)
(* converter.py: _process_metatiles, _process_border_metatiles,            *)
(* _build_map_layers                                                       *)
(* ---------------------------------------------------------------------- *)
MetatilesOf(tileset_name) ==
    IF tileset_name = PrimaryName THEN PrimaryMetatiles ELSE SecondaryMetatiles
AttributesOf(tileset_name) ==
    IF tileset_name = PrimaryName THEN PrimaryAttributes ELSE SecondaryAttributes

\* the cells walked column by column instead of row by row
EntryAtColumnMajor(entries, w, idx) ==
    entries[(idx % Len(entries)) + 1][(idx \div Len(entries)) + 1]

\* map_entries[y][x] of the idx-th cell of the row-major double loop
EntryAt(entries, w, idx) == entries[(idx \div w) + 1][(idx % w) + 1]

\* "Merge results": tile_id_to_gids[tile_key].extend(gid_list) for every key
RECURSIVE MergeTileIdToGids(_, _)
MergeTileIdToGids(t2g, single) ==
    IF single = <<>> THEN t2g
    ELSE MergeTileIdToGids(
             DictPut(t2g, single[1][1], DictGet(t2g, single[1][1], <<>>) \o single[1][2]),
             Tail(single))

\* the metatile of one cell, as the body of the double loop resolves it
CellMetatile(entry) ==
    determine_tileset_for_metatile(extract_metatile_id(entry), PrimaryName, SecondaryName)

\* one corner of the loop of _process_border_metatiles; st.raised stops the loop
BorderCornerNames == <<"top_left", "top_right", "bottom_left", "bottom_right">>
ProcessBorderCorner(st, corner_idx) ==
    LET m == determine_tileset_for_metatile(
                 border_data[corner_idx + 1] % (METATILE_ID_MASK + 1),
                 PrimaryName, SecondaryName)
        border_tileset_name == m[1]
        border_actual_id == m[2]
        border_layer_type_val == AttrGet(AttributesOf(border_tileset_name), border_actual_id)
        border_key == <<border_actual_id, border_tileset_name, border_layer_type_val>>
        start_idx == border_actual_id * NUM_TILES_PER_METATILE
        border_metatile_tiles ==
            Slice(MetatilesOf(border_tileset_name), start_idx, NUM_TILES_PER_METATILE)
        name == BorderCornerNames[corner_idx + 1]
        Result(used, mtg, i2g, n) ==
            [raised |-> FALSE,
             used_metatiles |-> used,
             metatile_to_gid |-> mtg,
             image_to_gid |-> i2g,
             next_gid |-> n,
             border_gids |->
                 DictPut(DictPut(st.border_gids, name,
                                 DictGet(mtg, border_key \o <<FALSE>>, 0)),
                         name \o "_top", DictGet(mtg, border_key \o <<TRUE>>, 0))]
        Assigned(imgs, g) ==
            Result(DictPut(st.used_metatiles, border_key, imgs),
                   DictUpdate(st.metatile_to_gid,
                              GidPair(border_key, g.bottom_gid, g.top_gid)),
                   g.image_to_gid, g.next_gid)
        Rendered(imgs) == Assigned(imgs, AssignGids(imgs, st.image_to_gid, st.next_gid))
    IN  IF border_layer_type_val \notin LayerTypes
        THEN [st EXCEPT !.raised = TRUE]
        ELSE IF /\ ~DictHas(st.used_metatiles, border_key)
                /\ start_idx < Len(MetatilesOf(border_tileset_name))
                /\ Len(border_metatile_tiles) = NUM_TILES_PER_METATILE
        THEN Rendered(RenderedPair(
                 render_metatile(border_metatile_tiles, PrimaryName, SecondaryName,
                                 border_layer_type_val, banks)))
        ELSE Result(st.used_metatiles, st.metatile_to_gid, st.image_to_gid, st.next_gid)

RECURSIVE BorderLoop(_, _)
BorderLoop(st, corner_idx) ==
    IF corner_idx >= 4 \/ st.raised THEN st
    ELSE BorderLoop(ProcessBorderCorner(st, corner_idx), corner_idx + 1)

\* the routing with a Covered metatile distributed like a Normal one
CellLayersCoveredAsNormal(entry, mtg) ==
    LET m == CellMetatile(entry)
        layer_type_val == AttrGet(AttributesOf(m[1]), m[2])
        bottom_gid == DictGet(mtg, <<m[2], m[1], layer_type_val, FALSE>>, 0)
        top_gid == DictGet(mtg, <<m[2], m[1], layer_type_val, TRUE>>, 0)
    IN  IF layer_type_val = NORMAL \/ layer_type_val = COVERED
        THEN [bg3 |-> 0, bg2 |-> bottom_gid, bg1 |-> top_gid]
        ELSE IF layer_type_val = SPLIT
        THEN [bg3 |-> bottom_gid, bg2 |-> 0, bg1 |-> top_gid]
        ELSE [bg3 |-> 0, bg2 |-> 0, bg1 |-> 0]

\* the GIDs of a cell and the planes its layer type routes them to
CellLayers(entry, mtg) ==
    LET m == CellMetatile(entry)
        layer_type_val == AttrGet(AttributesOf(m[1]), m[2])
        bottom_gid == DictGet(mtg, <<m[2], m[1], layer_type_val, FALSE>>, 0)
        top_gid == DictGet(mtg, <<m[2], m[1], layer_type_val, TRUE>>, 0)
    IN  IF layer_type_val = NORMAL
        THEN [bg3 |-> 0, bg2 |-> bottom_gid, bg1 |-> top_gid]
        ELSE IF layer_type_val = COVERED
        THEN [bg3 |-> bottom_gid, bg2 |-> top_gid, bg1 |-> 0]
        ELSE IF layer_type_val = SPLIT
        THEN [bg3 |-> bottom_gid, bg2 |-> 0, bg1 |-> top_gid]
        ELSE [bg3 |-> 0, bg2 |-> 0, bg1 |-> 0]

\* used_gids: the GIDs of the border corners and of the cells of the planes
UsedGidsOfPlanes(bgids, cell_gids) == {g \in cell_gids : g > 0}
UsedGids(bgids, cell_gids) ==
    {g \in DictValues(bgids) : g > 0} \cup {g \in cell_gids : g > 0}

\* _build_map_layers(map_entries, width, height, metatile_to_gid, ..., border_gids)
build_map_layers(entries, w, h, mtg, bgids) ==
    LET Result(bg3, bg2, bg1) ==
            [layer_data_bg3 |-> bg3,
             layer_data_bg2 |-> bg2,
             layer_data_bg1 |-> bg1,
             used_gids |-> UsedGids(bgids, {bg3[i] : i \in 1..(w * h)}
                                               \cup {bg2[i] : i \in 1..(w * h)}
                                               \cup {bg1[i] : i \in 1..(w * h)})]
        Planes(cells) ==
            Result(List([i \in 1..(w * h) |-> cells[i].bg3]),
                   List([i \in 1..(w * h) |-> cells[i].bg2]),
                   List([i \in 1..(w * h) |-> cells[i].bg1]))
    IN  Planes(List([i \in 1..(w * h) |->
                        CellLayers(EntryAt(entries, w, i - 1), mtg)]))

(* ---------------------------------------------------------------------- *)
(* animation_scanner.py: the catalog and the frame files on disk           *)
(* ---------------------------------------------------------------------- *)
\* ANIMATION_MAPPINGS of the two banks, in the order of the table, reduced to
\* the animations whose frame folders exist; files: number of frame PNGs
GeneralAnimations ==
    <<[anim_name |-> "flower", base_tileset |-> PrimaryName, base_tile_id |-> 508,
       num_tiles |-> 4, is_secondary |-> FALSE, frame_sequence |-> <<0, 1, 0, 2>>,
       duration_ms |-> 133, files |-> 3, code |-> 1],
      [anim_name |-> "waterfall", base_tileset |-> PrimaryName, base_tile_id |-> 496,
       num_tiles |-> 6, is_secondary |-> FALSE, frame_sequence |-> <<0, 1, 2, 3>>,
       duration_ms |-> 133, files |-> 4, code |-> 2]>>
RustboroAnimations ==
    <<[anim_name |-> "windy_water", base_tileset |-> SecondaryName, base_tile_id |-> 128,
       num_tiles |-> 8, is_secondary |-> TRUE, frame_sequence |-> <<>>,
       duration_ms |-> 133, files |-> 2, code |-> 3]>>

\* colour index of a pixel of frame file f of an animation (tile i of a strip,
\* or the whole 16x16 frame with i = 0)
FrameIndex(anim, f, i, x, y, dim) == (anim.code + f + i + x + dim * y) % NumIdx

\* the pixel after the conversion to RGBA: index 0 gets alpha 0
FramePixel(anim, idx) == <<150 + anim.code, 10 * idx, 90, IF idx = 0 THEN 0 ELSE 255>>

\* "is_metatile": the frame PNGs of the animation are 16x16
IsMetatile(anim, files16) == anim.anim_name \in files16

\* len(frames) of extract_all_animation_tiles
NumFrameImages(anim, files16) ==
    IF IsMetatile(anim, files16) THEN anim.files ELSE anim.files * anim.num_tiles

\* frames[k] of extract_all_animation_tiles (k from 0)
FrameImage(anim, k, files16) ==
    IF IsMetatile(anim, files16)
    THEN Pixels([y \in 1..MetaDim |-> [x \in 1..MetaDim |->
             FramePixel(anim, FrameIndex(anim, k, 0, x - 1, y - 1, MetaDim))]])
    ELSE Pixels([y \in 1..TileDim |-> [x \in 1..TileDim |->
             FramePixel(anim, FrameIndex(anim, k \div anim.num_tiles,
                                         k % anim.num_tiles, x - 1, y - 1, TileDim))]])

(* ---------------------------------------------------------------------- *)
(* converter.py: _create_tileset_for_map                                   *)
(* ---------------------------------------------------------------------- *)
RECURSIVE SortedSeq(_)
SortedSeq(S) ==
    IF S = {} THEN <<>>
    ELSE LET m == CHOOSE x \in S : \A y \in S : x <= y
         IN  <<m>> \o SortedSeq(S \ {m})

\* gid_to_image[gid]: the image of the first key of metatile_to_gid with the gid
GidToImage(gid, mtg, used) ==
    LET i == CHOOSE i \in 1..Len(mtg) :
                 /\ mtg[i][2] = gid
                 /\ \A j \in 1..(i - 1) : mtg[j][2] # gid
        k == mtg[i][1]
        imgs == DictGet(used, <<k[1], k[2], k[3]>>, <<>>)
    IN  IF k[4] THEN imgs[2] ELSE imgs[1]

\* the atlas before animation frames: the used GIDs in ascending order, one
\* slot each, pasted on a transparent image
create_tileset_image(mtg, used, used_gids) ==
    LET Atlas(gids) ==
            List([i \in 1..Len(gids) |->
                     Paste(EmptyMetatileImage, GidToImage(gids[i], mtg, used), 0, 0)])
    IN  Atlas(SortedSeq({g \in DictValues(mtg) : g \in used_gids}))

(* ---------------------------------------------------------------------- *)
(* converter.py: _build_metatile_animations                                *)
(* ---------------------------------------------------------------------- *)
\* all_anim_defs: the primary bank's animations, then the secondary bank's
AllAnimDefs == GeneralAnimations \o RustboroAnimations

ActualBaseTileId(anim) ==
    IF anim.is_secondary THEN anim.base_tile_id + 512 ELSE anim.base_tile_id

\* gid_mappings: the entries of tile_id_to_gids of the tile ids of the range
\* (the ranges of the catalog above iterate in ascending order)
RECURSIVE GidMappings(_, _, _, _)
GidMappings(anim, t2g, tile_id, last) ==
    IF tile_id > last THEN <<>>
    ELSE DictGet(t2g, <<tile_id, anim.base_tileset>>, <<>>)
         \o GidMappings(anim, t2g, tile_id + 1, last)

\* PHASE 1, the loop over gid_mappings: one (layer_gid, metatile_key, position)
AddAnimInfo(ma, anim, m, used_gids) ==
    IF m[1] \notin used_gids THEN ma
    ELSE LET list == DictGet(ma, m[2], <<>>)
         IN  IF \E i \in 1..Len(list) :
                    /\ list[i].anim.anim_name = anim.anim_name
                    /\ list[i].tile_position = m[3]
             THEN DictPut(ma, m[2], list)
             ELSE DictPut(ma, m[2],
                          Append(list, [anim |-> anim, layer_gid |-> m[1],
                                        tile_position |-> m[3]]))

RECURSIVE AddAnimInfos(_, _, _, _)
AddAnimInfos(ma, anim, mappings, used_gids) ==
    IF mappings = <<>> THEN ma
    ELSE AddAnimInfos(AddAnimInfo(ma, anim, Head(mappings), used_gids),
                      anim, Tail(mappings), used_gids)

\* PHASE 1: metatile_key -> list of animation info
RECURSIVE CollectAnimations(_, _, _, _, _)
CollectAnimations(ma, defs, t2g, used_gids, files16) ==
    IF defs = <<>> THEN ma
    ELSE LET Collect(anim, mappings) ==
                 CollectAnimations(
                     IF mappings = <<>> \/ NumFrameImages(anim, files16) = 0 THEN ma
                     ELSE AddAnimInfos(ma, anim, mappings, used_gids),
                     Tail(defs), t2g, used_gids, files16)
         IN  Collect(Head(defs),
                     GidMappings(Head(defs), t2g, ActualBaseTileId(Head(defs)),
                                 ActualBaseTileId(Head(defs)) + Head(defs).num_tiles - 1))

\* PHASE 2, metatile animations: the frames of the first 16x16 animation, as
\* they are, and one entry for the GID the animation was found on
MetatileAnimation(st, info, used_gids, files16) ==
    LET Result(anim, n, shared_frame_gids) ==
            [slots |-> st.slots \o List([i \in 1..n |->
                                            Paste(EmptyMetatileImage,
                                                  FrameImage(anim, i - 1, files16), 0, 0)]),
             animations |->
                 IF info.layer_gid \in used_gids /\ shared_frame_gids # <<>>
                 THEN Append(st.animations, [id |-> info.layer_gid - 1,
                                             animation |-> shared_frame_gids])
                 ELSE st.animations]
        Shared(anim, n, first, valid) ==
            Result(anim, n, List([i \in 1..Len(valid) |->
                                     [tileid |-> first + valid[i],
                                      duration |-> anim.duration_ms]]))
        Playback(anim, n, playback_order) ==
            Shared(anim, n, Len(st.slots),
                   SelectSeq(playback_order, LAMBDA s : s \in 0..(n - 1)))
        Frames(anim, n) ==
            Playback(anim, n, IF anim.frame_sequence # <<>> THEN anim.frame_sequence
                              ELSE List([i \in 1..n |-> i - 1]))
    IN  Frames(info.anim, NumFrameImages(info.anim, files16))

\* all_bottom_tiles / all_top_tiles: position in the half -> animated tile
RECURSIVE AnimatedTiles(_, _, _, _)
AnimatedTiles(acc, infos, metatile_tiles, top) ==
    IF infos = <<>> THEN acc
    ELSE LET info == Head(infos)
             pos == info.tile_position
             t == metatile_tiles[pos + 1]
             base == ActualBaseTileId(info.anim)
             hit == /\ (pos >= 4) = top
                    /\ t[1] \in base..(base + info.anim.num_tiles - 1)
         IN  AnimatedTiles(
                 IF hit
                 THEN DictPut(acc, IF top THEN pos - 4 ELSE pos,
                              [tile_id |-> t[1], flip_flags |-> t[2],
                               anim |-> info.anim, gid |-> info.layer_gid])
                 ELSE acc,
                 Tail(infos), metatile_tiles, top)

\* num_frames of one animated tile
NumFrames(e, files16) ==
    IF e.anim.frame_sequence # <<>> THEN Len(e.anim.frame_sequence)
    ELSE IF e.anim.num_tiles > 0 /\ NumFrameImages(e.anim, files16) > 0
         THEN NumFrameImages(e.anim, files16) \div e.anim.num_tiles
         ELSE NumFrameImages(e.anim, files16)

RECURSIVE MaxFrames(_, _, _)
MaxFrames(acc, tiles, files16) ==
    IF tiles = <<>> THEN acc
    ELSE LET n == NumFrames(Head(tiles)[2], files16)
         IN  MaxFrames(IF n > acc THEN n ELSE acc, Tail(tiles), files16)

\* animation_duration_ms: "the first non-default duration we find"
RECURSIVE AnimationDuration(_, _)
AnimationDuration(acc, tiles) ==
    IF tiles = <<>> THEN acc
    ELSE LET d == Head(tiles)[2].anim.duration_ms
         IN  AnimationDuration(IF d # 133 THEN d
                               ELSE IF acc = 133 THEN d ELSE acc,
                               Tail(tiles))

\* actual_frame without the modulo: past its last step an animation stays on
\* the last frame of its order
ActualFrameHeld(e, frame_num, files16) ==
    IF e.anim.frame_sequence # <<>>
    THEN e.anim.frame_sequence[(IF frame_num < Len(e.anim.frame_sequence)
                                THEN frame_num
                                ELSE Len(e.anim.frame_sequence) - 1) + 1]
    ELSE IF e.anim.num_tiles > 0 /\ NumFrameImages(e.anim, files16) > 0
         THEN IF NumFrameImages(e.anim, files16) \div e.anim.num_tiles > frame_num
              THEN frame_num
              ELSE IF NumFrameImages(e.anim, files16) \div e.anim.num_tiles > 0
                   THEN (NumFrameImages(e.anim, files16) \div e.anim.num_tiles) - 1
                   ELSE 0
         ELSE 0

\* actual_frame of frame_num for one animated tile
ActualFrame(e, frame_num, files16) ==
    IF e.anim.frame_sequence # <<>>
    THEN e.anim.frame_sequence[(frame_num % Len(e.anim.frame_sequence)) + 1]
    ELSE IF e.anim.num_tiles > 0 /\ NumFrameImages(e.anim, files16) > 0
         THEN IF NumFrameImages(e.anim, files16) \div e.anim.num_tiles > 0
              THEN frame_num % (NumFrameImages(e.anim, files16) \div e.anim.num_tiles)
              ELSE 0
         ELSE 0

\* a frame tile pasted as it is in the strip, its flip flags ignored
FlipFrameTileNone(frame_tile, flip_flags) == frame_tile

\* the flip flags of the metatile definition applied to a frame tile, as the
\* static tile got them
FlipFrameTile(frame_tile, flip_flags) == FlipTile(frame_tile, flip_flags)

\* one animated tile replaced in the composite of a half for frame_num
SubstituteTile(composite, pos, e, frame_num, files16) ==
    LET frame_tile_idx == ActualFrame(e, frame_num, files16) * e.anim.num_tiles
                          + (e.tile_id - ActualBaseTileId(e.anim))
    IN  IF 0 <= frame_tile_idx /\ frame_tile_idx < NumFrameImages(e.anim, files16)
        THEN Paste(composite,
                   FlipFrameTile(FrameImage(e.anim, frame_tile_idx, files16),
                                 e.flip_flags),
                   (pos % 2) * TileDim, (pos \div 2) * TileDim)
        ELSE composite

RECURSIVE CompositeFrame(_, _, _, _)
CompositeFrame(composite, tiles, frame_num, files16) ==
    IF tiles = <<>> THEN composite
    ELSE CompositeFrame(
             SubstituteTile(composite, Head(tiles)[1], Head(tiles)[2], frame_num, files16),
             Tail(tiles), frame_num, files16)

\* the composites of one half of a metatile, one per frame_num, each pasted
\* into a slot of its own
HalfFrames(base_image, tiles, num_anim_frames, files16) ==
    List([f \in 1..num_anim_frames |->
             Paste(EmptyMetatileImage,
                   CompositeFrame(base_image, tiles, f - 1, files16), 0, 0)])

\* the frames named by next_gid instead of tile_idx = next_gid - 1
FrameGidsByNextGid(first, count, animation_duration_ms) ==
    List([f \in 1..count |->
             [tileid |-> first + f, duration |-> animation_duration_ms]])

\* composited_frame_gids / composited_top_frame_gids
FrameGids(first, count, animation_duration_ms) ==
    List([f \in 1..count |->
             [tileid |-> first + f - 1, duration |-> animation_duration_ms]])

\* the entries keyed by the GID itself instead of the local tile id
LayerEntriesKeyedByGid(tiles, frame_gids, used_gids) ==
    LET Entries(gids) ==
            List([i \in 1..Len(gids) |->
                     [id |-> gids[i], animation |-> frame_gids]])
    IN  Entries(SortedSeq({tiles[i][2].gid : i \in 1..Len(tiles)} \cap used_gids))

\* the entries of the GIDs of one half that are used by the map
LayerEntries(tiles, frame_gids, used_gids) ==
    LET Entries(gids) ==
            List([i \in 1..Len(gids) |->
                     [id |-> gids[i] - 1, animation |-> frame_gids]])
    IN  Entries(SortedSeq({tiles[i][2].gid : i \in 1..Len(tiles)} \cap used_gids))

\* PHASE 2, tile strip animations: one composite per frame_num and half, each
\* pasted into the next free slot, and one entry per animated half
TileStripAnimation(st, key, infos, used, comp, used_gids, files16) ==
    LET Result(all_bottom_tiles, all_top_tiles, num_anim_frames, top_frames,
               animation_duration_ms) ==
            [slots |-> st.slots
                       \o HalfFrames(DictGet(used, key, <<>>)[1], all_bottom_tiles,
                                     num_anim_frames, files16)
                       \o top_frames,
             animations |->
                 st.animations
                 \o (IF all_bottom_tiles # <<>>
                     THEN LayerEntries(all_bottom_tiles,
                                       FrameGids(Len(st.slots), num_anim_frames,
                                                 animation_duration_ms),
                                       used_gids)
                     ELSE <<>>)
                 \o (IF top_frames # <<>> /\ all_top_tiles # <<>>
                     THEN LayerEntries(all_top_tiles,
                                       FrameGids(Len(st.slots) + num_anim_frames,
                                                 Len(top_frames), animation_duration_ms),
                                       used_gids)
                     ELSE <<>>)]
        Frames(all_bottom_tiles, all_top_tiles, num_anim_frames, animation_duration_ms) ==
            Result(all_bottom_tiles, all_top_tiles, num_anim_frames,
                   IF all_top_tiles = <<>> THEN <<>>
                   ELSE HalfFrames(DictGet(used, key, <<>>)[2], all_top_tiles,
                                   num_anim_frames, files16),
                   animation_duration_ms)
        Counted(all_bottom_tiles, all_top_tiles, max_frames) ==
            Frames(all_bottom_tiles, all_top_tiles,
                   IF max_frames > 0 THEN max_frames ELSE 8,
                   AnimationDuration(133, all_bottom_tiles \o all_top_tiles))
        Tiles(all_bottom_tiles, all_top_tiles) ==
            IF all_bottom_tiles = <<>> /\ all_top_tiles = <<>> THEN st
            ELSE Counted(all_bottom_tiles, all_top_tiles,
                         MaxFrames(0, all_bottom_tiles \o all_top_tiles, files16))
        Composition(metatile_tiles) ==
            Tiles(AnimatedTiles(<<>>, infos, metatile_tiles, FALSE),
                  AnimatedTiles(<<>>, infos, metatile_tiles, TRUE))
    IN  Composition(DictGet(comp, key, <<>>))

\* PHASE 2, one metatile of metatile_animations
AnimateMetatile(st, key, infos, used, comp, used_gids, files16) ==
    IF ~DictHas(used, key) \/ ~DictHas(comp, key) THEN st
    ELSE IF \E i \in 1..Len(infos) : IsMetatile(infos[i].anim, files16)
    THEN MetatileAnimation(
             st,
             infos[CHOOSE i \in 1..Len(infos) :
                       /\ IsMetatile(infos[i].anim, files16)
                       /\ \A j \in 1..(i - 1) : ~IsMetatile(infos[j].anim, files16)],
             used_gids, files16)
    ELSE TileStripAnimation(st, key, infos, used, comp, used_gids, files16)

RECURSIVE AnimateMetatiles(_, _, _, _, _, _)
AnimateMetatiles(st, ma, used, comp, used_gids, files16) ==
    IF ma = <<>> THEN st
    ELSE AnimateMetatiles(
             AnimateMetatile(st, Head(ma)[1], Head(ma)[2], used, comp, used_gids, files16),
             Tail(ma), used, comp, used_gids, files16)

\* the deduplication keeping the last entry of every id
DeduplicateAnimationsKeepLast(anims) ==
    LET Kept(order) == List([i \in 1..Len(order) |-> anims[order[i]]])
    IN  Kept(SortedSeq({i \in 1..Len(anims) :
                           \A j \in (i + 1)..Len(anims) : anims[j].id # anims[i].id}))

\* "Deduplicate animations by tile ID": the first entry of every id
DeduplicateAnimations(anims) ==
    LET Kept(order) == List([i \in 1..Len(order) |-> anims[order[i]]])
    IN  Kept(SortedSeq({i \in 1..Len(anims) :
                           \A j \in 1..(i - 1) : anims[j].id # anims[i].id}))

\* _build_metatile_animations: the deduplicated entries and the extended atlas
build_metatile_animations(slots, used, t2g, comp, used_gids, files16) ==
    LET Result(st) ==
            [slots |-> st.slots, animations |-> DeduplicateAnimations(st.animations)]
    IN  Result(AnimateMetatiles(
                   [slots |-> slots, animations |-> <<>>],
                   CollectAnimations(<<>>, AllAnimDefs, t2g, used_gids, files16),
                   used, comp, used_gids, files16))

(* ---------------------------------------------------------------------- *)
(* convert_map_with_metatiles as a state machine                           *)
(* ---------------------------------------------------------------------- *)
\* the u16 entries of the compiled maps: metatile ids, some with collision
\* and elevation bits set
GridEntries == {0, 1, 2, 4, 5 + 1024 + 4096, 6, 512}
BorderFiles == {<<>>, <<3 + 1024, 6, 512, 7>>, <<5, 4, 1, 1>>, <<1, 2>>}
FrameFileKinds == {{}, {"flower"}}

vars == <<banks, r_tiles, r_pc, grid_image, width, height, map_entries,
          border_data, anim_files, pc, cell, used_metatiles, metatile_to_gid,
          tile_id_to_gids, metatile_composition, image_to_gid, next_gid,
          border_gids, layers, tileset_image, animations, tiled_map,
          batch_vars, worker_vars, read_vars, tool_vars>>

inputs == <<banks, width, height, map_entries, border_data, anim_files>>
render_idle == <<r_tiles, r_pc, grid_image>>

\* the state at the head of _process_metatiles: empty tables, next_gid = 1
InitCompile ==
    /\ pc = "process_metatiles"
    /\ cell = 0
    /\ used_metatiles = <<>>
    /\ metatile_to_gid = <<>>
    /\ tile_id_to_gids = <<>>
    /\ metatile_composition = <<>>
    /\ image_to_gid = <<>>
    /\ next_gid = 1
    /\ border_gids = <<>>
    /\ layers = <<>>
    /\ tileset_image = <<>>
    /\ animations = <<>>
    /\ tiled_map = <<>>
    /\ r_tiles = <<>>
    /\ r_pc = "idle"
    /\ grid_image = <<>>

Init ==
    /\ banks = DefaultBanks
    /\ width \in 1..MaxWidth
    /\ height \in 1..MaxHeight
    /\ map_entries \in [1..height -> [1..width -> GridEntries]]
    /\ Cardinality({map_entries[y][x] : y \in 1..height, x \in 1..width}) <= MaxDistinct
    /\ border_data \in BorderFiles
    /\ anim_files \in FrameFileKinds
    /\ InitCompile
    /\ BatchIdle
    /\ WorkerIdle
    /\ ReadIdle
    /\ ToolsIdle

\* one iteration of the double loop of _process_metatiles
ProcessCell ==
    /\ pc = "process_metatiles"
    /\ cell < width * height
    /\ \E m \in {CellMetatile(EntryAt(map_entries, width, cell))} :
       \E result \in {process_single_metatile(m[2], m[1], MetatilesOf(m[1]),
                          AttributesOf(m[1]), PrimaryName, SecondaryName,
                          used_metatiles, image_to_gid, next_gid, banks)} :
           IF result.raised
           THEN /\ pc' = "failed"
                /\ UNCHANGED <<cell, used_metatiles, metatile_to_gid, tile_id_to_gids,
                               metatile_composition, image_to_gid, next_gid>>
           ELSE /\ used_metatiles' = result.used_metatiles
                /\ image_to_gid' = result.image_to_gid
                /\ next_gid' = result.next_gid
                /\ metatile_to_gid' = DictUpdate(metatile_to_gid, result.metatile_to_gid)
                /\ tile_id_to_gids' = MergeTileIdToGids(tile_id_to_gids,
                                                        result.tile_id_to_gids)
                /\ metatile_composition' =
                       IF result.metatile_tiles # <<>>
                       THEN DictPut(metatile_composition,
                                    <<m[2], m[1], AttrGet(AttributesOf(m[1]), m[2])>>,
                                    result.metatile_tiles)
                       ELSE metatile_composition
                /\ cell' = cell + 1
                /\ pc' = IF cell + 1 = width * height
                         THEN "process_border" ELSE "process_metatiles"
    /\ UNCHANGED <<inputs, render_idle, border_gids, layers, tileset_image,
                   animations, tiled_map>>
    /\ UNCHANGED <<batch_vars, worker_vars, read_vars, tool_vars>>

\* the tables _process_border_metatiles starts from
BorderStart ==
    [raised |-> FALSE,
     used_metatiles |-> used_metatiles,
     metatile_to_gid |-> metatile_to_gid,
     image_to_gid |-> image_to_gid,
     next_gid |-> next_gid,
     border_gids |-> <<>>]

\* _process_border_metatiles
ProcessBorderMetatiles ==
    /\ pc = "process_border"
    /\ \E st \in {IF Len(border_data) >= 4 THEN BorderLoop(BorderStart, 0)
                  ELSE BorderStart} :
           /\ used_metatiles' = st.used_metatiles
           /\ metatile_to_gid' = st.metatile_to_gid
           /\ image_to_gid' = st.image_to_gid
           /\ next_gid' = st.next_gid
           /\ border_gids' = st.border_gids
    /\ pc' = "build_layers"
    /\ UNCHANGED <<inputs, render_idle, cell, tile_id_to_gids, metatile_composition,
                   layers, tileset_image, animations, tiled_map>>
    /\ UNCHANGED <<batch_vars, worker_vars, read_vars, tool_vars>>

\* _build_map_layers
BuildMapLayers ==
    /\ pc = "build_layers"
    /\ layers' = build_map_layers(map_entries, width, height, metatile_to_gid, border_gids)
    /\ pc' = "create_tileset"
    /\ UNCHANGED <<inputs, render_idle, cell, used_metatiles, metatile_to_gid,
                   tile_id_to_gids, metatile_composition, image_to_gid, next_gid,
                   border_gids, tileset_image, animations, tiled_map>>
    /\ UNCHANGED <<batch_vars, worker_vars, read_vars, tool_vars>>

\* _create_tileset_for_map up to its call of _build_metatile_animations
CreateTilesetForMap ==
    /\ pc = "create_tileset"
    /\ tileset_image' = create_tileset_image(metatile_to_gid, used_metatiles,
                                             layers.used_gids)
    /\ pc' = "build_animations"
    /\ UNCHANGED <<inputs, render_idle, cell, used_metatiles, metatile_to_gid,
                   tile_id_to_gids, metatile_composition, image_to_gid, next_gid,
                   border_gids, layers, animations, tiled_map>>
    /\ UNCHANGED <<batch_vars, worker_vars, read_vars, tool_vars>>

\* _build_metatile_animations and the rest of _create_tileset_for_map
BuildMetatileAnimations ==
    /\ pc = "build_animations"
    /\ \E r \in {build_metatile_animations(tileset_image, used_metatiles,
                     tile_id_to_gids, metatile_composition, layers.used_gids,
                     anim_files)} :
           /\ tileset_image' = r.slots
           /\ animations' = r.animations
    /\ pc' = "create_map"
    /\ UNCHANGED <<inputs, render_idle, cell, used_metatiles, metatile_to_gid,
                   tile_id_to_gids, metatile_composition, image_to_gid, next_gid,
                   border_gids, layers, tiled_map>>
    /\ UNCHANGED <<batch_vars, worker_vars, read_vars, tool_vars>>

\* _create_tiled_map_structure: the named layers and the border property
CreateTiledMapStructure ==
    /\ pc = "create_map"
    /\ tiled_map' =
           [Ground |-> layers.layer_data_bg3,
            Objects |-> layers.layer_data_bg2,
            Overhead |-> layers.layer_data_bg1,
            border |-> IF Len(border_gids) >= 4
                       THEN [n \in {"top_left", "top_right", "bottom_left",
                                    "bottom_right", "top_left_top", "top_right_top",
                                    "bottom_left_top", "bottom_right_top"} |->
                                DictGet(border_gids, n, 0)]
                       ELSE <<>>]
    /\ pc' = "done"
    /\ UNCHANGED <<inputs, render_idle, cell, used_metatiles, metatile_to_gid,
                   tile_id_to_gids, metatile_composition, image_to_gid, next_gid,
                   border_gids, layers, tileset_image, animations>>
    /\ UNCHANGED <<batch_vars, worker_vars, read_vars, tool_vars>>

Next ==
    \/ ProcessCell
    \/ ProcessBorderMetatiles
    \/ BuildMapLayers
    \/ CreateTilesetForMap
    \/ BuildMetatileAnimations
    \/ CreateTiledMapStructure

Spec == Init /\ [][Next]_vars

(* ---------------------------------------------------------------------- *)
(* A worker process converting one map after another                       *)
(* ---------------------------------------------------------------------- *)
\* the dedup table and the counter kept from the map compiled before
FreshDedupShared(i2g, n) == [image_to_gid |-> i2g, next_gid |-> n]

\* "image_to_gid = {}" and "next_gid = 1" at the head of _process_metatiles,
\* whatever an earlier compilation left
FreshDedup(i2g, n) == [image_to_gid |-> <<>>, next_gid |-> 1]

\* the grids of the maps a worker is handed
SeriesGrids(w) ==
    {g \in [1..1 -> [1..w -> GridEntries]] :
        Cardinality({g[1][x] : x \in 1..w}) <= MaxDistinct}

InitSeries ==
    /\ Init
    /\ height = 1

\* convert_single_map is called for the next task of the worker: a new
\* MapConverter, and _process_metatiles starts its tables anew
StartNextMap ==
    /\ pc \in {"done", "failed"}
    /\ maps_before < MaxSeries
    /\ maps_before' = maps_before + 1
    /\ \E w \in 1..MaxWidth :
          /\ width' = w
          /\ \E g \in SeriesGrids(w) : map_entries' = g
    /\ height' = 1
    /\ border_data' \in BorderFiles
    /\ \E d \in {FreshDedup(image_to_gid, next_gid)} :
          /\ image_to_gid' = d.image_to_gid
          /\ next_gid' = d.next_gid
    /\ pc' = "process_metatiles"
    /\ cell' = 0
    /\ used_metatiles' = <<>>
    /\ metatile_to_gid' = <<>>
    /\ tile_id_to_gids' = <<>>
    /\ metatile_composition' = <<>>
    /\ border_gids' = <<>>
    /\ layers' = <<>>
    /\ tileset_image' = <<>>
    /\ animations' = <<>>
    /\ tiled_map' = <<>>
    /\ UNCHANGED <<banks, anim_files, render_idle>>
    /\ UNCHANGED <<batch_vars, w_args, w_cond, w_out, w_pc, read_vars, tool_vars>>

NextSeries ==
    \/ Next
    \/ StartNextMap

SpecSeries == InitSeries /\ [][NextSeries]_vars

(* ---------------------------------------------------------------------- *)
(* The compilation of one map as a function of its own inputs              *)
(* ---------------------------------------------------------------------- *)
\* _process_metatiles: the double loop from its empty tables; st.raised when
\* process_single_metatile raised
RECURSIVE process_metatiles(_, _, _, _, _)
process_metatiles(st, idx, entries, w, h) ==
    IF idx >= w * h \/ st.raised THEN st
    ELSE LET Merged(m, result) ==
                 IF result.raised THEN [st EXCEPT !.raised = TRUE]
                 ELSE [raised |-> FALSE,
                       used_metatiles |-> result.used_metatiles,
                       image_to_gid |-> result.image_to_gid,
                       next_gid |-> result.next_gid,
                       metatile_to_gid |->
                           DictUpdate(st.metatile_to_gid, result.metatile_to_gid),
                       tile_id_to_gids |->
                           MergeTileIdToGids(st.tile_id_to_gids, result.tile_id_to_gids),
                       metatile_composition |->
                           IF result.metatile_tiles # <<>>
                           THEN DictPut(st.metatile_composition,
                                        <<m[2], m[1], AttrGet(AttributesOf(m[1]), m[2])>>,
                                        result.metatile_tiles)
                           ELSE st.metatile_composition]
             Cell(m) ==
                 Merged(m, process_single_metatile(m[2], m[1], MetatilesOf(m[1]), AttributesOf(m[1]), PrimaryName, SecondaryName, st.used_metatiles, st.image_to_gid, st.next_gid, banks))
         IN  process_metatiles(Cell(CellMetatile(EntryAt(entries, w, idx))),
                               idx + 1, entries, w, h)

EmptyTables ==
    [raised |-> FALSE, used_metatiles |-> <<>>, image_to_gid |-> <<>>,
     next_gid |-> 1, metatile_to_gid |-> <<>>, tile_id_to_gids |-> <<>>,
     metatile_composition |-> <<>>]

\* convert_map_with_metatiles of the map now in hand, from empty tables: the
\* planes, the border GIDs and the animations
CompileAlone ==
    LET Out(lay, bd, anims) ==
            [Ground |-> lay.layer_data_bg3, Objects |-> lay.layer_data_bg2,
             Overhead |-> lay.layer_data_bg1, border_gids |-> bd.border_gids,
             animations |-> anims.animations]
        Animated(pm, bd, lay, atlas) ==
            Out(lay, bd,
                build_metatile_animations(atlas, bd.used_metatiles, pm.tile_id_to_gids,
                                          pm.metatile_composition, lay.used_gids,
                                          anim_files))
        Atlas(pm, bd, lay) ==
            Animated(pm, bd, lay,
                     create_tileset_image(bd.metatile_to_gid, bd.used_metatiles,
                                          lay.used_gids))
        Layered(pm, bd) ==
            Atlas(pm, bd, build_map_layers(map_entries, width, height,
                                           bd.metatile_to_gid, bd.border_gids))
        Bordered(pm) ==
            Layered(pm,
                    IF Len(border_data) >= 4
                    THEN BorderLoop([raised |-> FALSE,
                                     used_metatiles |-> pm.used_metatiles,
                                     metatile_to_gid |-> pm.metatile_to_gid,
                                     image_to_gid |-> pm.image_to_gid,
                                     next_gid |-> pm.next_gid,
                                     border_gids |-> <<>>], 0)
                    ELSE [raised |-> FALSE,
                          used_metatiles |-> pm.used_metatiles,
                          metatile_to_gid |-> pm.metatile_to_gid,
                          image_to_gid |-> pm.image_to_gid,
                          next_gid |-> pm.next_gid,
                          border_gids |-> <<>>])
    IN  Bordered(process_metatiles(EmptyTables, 0, map_entries, width, height))

(* ---------------------------------------------------------------------- *)
(* map_worker.py: convert_single_map                                       *)
(* ---------------------------------------------------------------------- *)
\* the result of a call: a returned tuple, or an exception that left the call
Returned(value) == [state |-> "done", raised |-> FALSE, value |-> value]
RaisedOut(what) == [state |-> "done", raised |-> TRUE, value |-> <<what>>]
Pending == [state |-> "pending", raised |-> FALSE, value |-> <<>>]

\* what a task meets: load_ok (the imports, the converter and load_json work),
\* the layout_id of the map ("" when it has none), whether layouts_dict has
\* it, whether its map.bin exists, what convert_map_with_metatiles does and
\* whether save_map works
TaskConditions ==
    [load_ok : BOOLEAN, layout_id : {"", "LAYOUT_1"}, layout_known : BOOLEAN,
     map_bin_exists : BOOLEAN, convert : {"raises", "none", "map"},
     save_ok : BOOLEAN]

\* the body of convert_single_map inside its try block; "" stands for None
\* in error_msg and <<>> for None in world_data and tiled_map
ConvertInTry(map_id, c) ==
    IF ~c.load_ok
    THEN Returned(<<"error", map_id, "OSError", <<>>, <<>>, {}, {}>>)
    ELSE IF c.layout_id = ""
    THEN Returned(<<"skipped", map_id, "No layout_id", <<>>, <<>>, {}, {}>>)
    ELSE IF ~c.layout_known
    THEN Returned(<<"skipped_layout", map_id, "Layout not found", <<>>, <<>>, {}, {}>>)
    ELSE IF ~c.map_bin_exists
    THEN Returned(<<"skipped", map_id, "map.bin not found", <<>>, <<>>, {}, {}>>)
    ELSE IF c.convert = "raises"
    THEN Returned(<<"error", map_id, "ValueError", <<>>, <<>>, {}, {}>>)
    ELSE IF c.convert = "map"
    THEN IF c.save_ok
         THEN Returned(<<"success", map_id, "", <<map_id, "world_data">>,
                         <<map_id, "tiled_map">>, {}, {}>>)
         ELSE Returned(<<"error", map_id, "OSError", <<>>, <<>>, {}, {}>>)
    ELSE Returned(<<"failed", map_id, "convert_map_with_metatiles returned None",
                    <<>>, <<>>, {}, {}>>)

\* convert_single_map(args_tuple): the unpacking of args_tuple into seven
\* names comes before the try block
convert_single_map(args_tuple, c) ==
    IF Len(args_tuple) # 7 THEN RaisedOut("ValueError")
    ELSE ConvertInTry(args_tuple[1], c)

(* ---------------------------------------------------------------------- *)
(* __main__.py: the conversion of the maps in a process pool               *)
(* ---------------------------------------------------------------------- *)
MapNames == <<"MAP_A", "MAP_B", "MAP_C", "MAP_D">>
MapIds == {MapNames[i] : i \in 1..MaxMaps}

\* the task tuple main() appends to conversion_tasks for a map
ConversionTask(map_id) ==
    <<map_id, "map_info", "input_dir", "output_dir", "layouts",
      "region_override", "warp_lookup", "args.tiled">>

\* what future.result() can give for a map: a tuple the worker function
\* returns, or an exception
FutureOutcomes(map_id) ==
    {ConvertInTry(map_id, c) : c \in TaskConditions} \cup {RaisedOut("ValueError")}

Counters ==
    [converted |-> converted, skipped_layout |-> skipped_layout,
     skipped_other |-> skipped_other, skipped_maps |-> skipped_maps,
     world_builder_data |-> world_builder_data, all_used_tiles |-> all_used_tiles]

\* the body of the result loop with an exception of future.result() left
\* uncounted
HandleOutcomeDropsRaised(st, map_id, out) ==
    IF out.raised \/ Len(out.value) # 7
    THEN st
    ELSE IF out.value[1] = "success"
    THEN [st EXCEPT !.converted = @ + 1,
                    !.world_builder_data =
                        IF out.value[4] # <<>> THEN Append(@, out.value[4]) ELSE @,
                    !.all_used_tiles = @ \cup out.value[6] \cup out.value[7]]
    ELSE IF out.value[1] = "skipped_layout"
    THEN [st EXCEPT !.skipped_layout = @ + 1,
                    !.skipped_maps = Append(@, <<out.value[2], "layout not found">>)]
    ELSE [st EXCEPT !.skipped_other = @ + 1,
                    !.skipped_maps =
                        Append(@, <<out.value[2],
                                    IF out.value[3] # "" THEN out.value[3]
                                    ELSE "unknown error">>)]

\* the body of the result loop for one future
HandleOutcome(st, map_id, out) ==
    IF out.raised \/ Len(out.value) # 7
    THEN [st EXCEPT !.skipped_other = @ + 1,
                    !.skipped_maps = Append(@, <<map_id, "exception">>)]
    ELSE IF out.value[1] = "success"
    THEN [st EXCEPT !.converted = @ + 1,
                    !.world_builder_data =
                        IF out.value[4] # <<>> THEN Append(@, out.value[4]) ELSE @,
                    !.all_used_tiles = @ \cup out.value[6] \cup out.value[7]]
    ELSE IF out.value[1] = "skipped_layout"
    THEN [st EXCEPT !.skipped_layout = @ + 1,
                    !.skipped_maps = Append(@, <<out.value[2], "layout not found">>)]
    ELSE [st EXCEPT !.skipped_other = @ + 1,
                    !.skipped_maps =
                        Append(@, <<out.value[2],
                                    IF out.value[3] # "" THEN out.value[3]
                                    ELSE "unknown error">>)]

compile_vars == <<banks, r_tiles, r_pc, grid_image, width, height, map_entries,
                  border_data, anim_files, pc, cell, used_metatiles,
                  metatile_to_gid, tile_id_to_gids, metatile_composition,
                  image_to_gid, next_gid, border_gids, layers, tileset_image,
                  animations, tiled_map>>

\* no compilation is modelled while main() or the worker function runs
CompileIdle ==
    /\ banks = DefaultBanks
    /\ width = 0
    /\ height = 0
    /\ map_entries = <<>>
    /\ border_data = <<>>
    /\ anim_files = {}
    /\ pc = "idle"
    /\ cell = 0
    /\ used_metatiles = <<>>
    /\ metatile_to_gid = <<>>
    /\ tile_id_to_gids = <<>>
    /\ metatile_composition = <<>>
    /\ image_to_gid = <<>>
    /\ next_gid = 1
    /\ border_gids = <<>>
    /\ layers = <<>>
    /\ tileset_image = <<>>
    /\ animations = <<>>
    /\ tiled_map = <<>>
    /\ r_tiles = <<>>
    /\ r_pc = "idle"
    /\ grid_image = <<>>

InitBatch ==
    /\ maps \in (SUBSET MapIds) \ {{}}
    /\ futures = <<>>
    /\ yielded = {}
    /\ handled = <<>>
    /\ converted = 0
    /\ skipped_layout = 0
    /\ skipped_other = 0
    /\ skipped_maps = <<>>
    /\ world_builder_data = <<>>
    /\ all_used_tiles = {}
    /\ b_pc = "submit"
    /\ PhaseIdle
    /\ WorkerIdle
    /\ ReadIdle
    /\ ToolsIdle
    /\ CompileIdle

\* executor.submit for every task of conversion_tasks
SubmitTasks ==
    /\ b_pc = "submit"
    /\ futures' = [m \in maps |-> Pending]
    /\ handled' = [m \in maps |-> 0]
    /\ b_pc' = "results"
    /\ UNCHANGED <<maps, yielded, converted, skipped_layout, skipped_other,
                   skipped_maps, world_builder_data, all_used_tiles>>
    /\ UNCHANGED <<compile_vars, worker_vars, phase_vars, read_vars, tool_vars>>

\* a worker process finishes the task of map m
CompleteTask(m) ==
    /\ b_pc = "results"
    /\ futures[m].state = "pending"
    /\ \E out \in FutureOutcomes(m) : futures' = [futures EXCEPT ![m] = out]
    /\ UNCHANGED <<maps, yielded, handled, converted, skipped_layout, skipped_other,
                   skipped_maps, world_builder_data, all_used_tiles, b_pc>>
    /\ UNCHANGED <<compile_vars, worker_vars, phase_vars, read_vars, tool_vars>>

\* one iteration of "for future in as_completed(future_to_map)"
HandleResult(m) ==
    /\ b_pc = "results"
    /\ futures[m].state = "done"
    /\ m \notin yielded
    /\ yielded' = yielded \cup {m}
    /\ handled' = [handled EXCEPT ![m] = @ + 1]
    /\ \E st \in {HandleOutcome(Counters, m, futures[m])} :
           /\ converted' = st.converted
           /\ skipped_layout' = st.skipped_layout
           /\ skipped_other' = st.skipped_other
           /\ skipped_maps' = st.skipped_maps
           /\ world_builder_data' = st.world_builder_data
           /\ all_used_tiles' = st.all_used_tiles
    /\ UNCHANGED <<maps, futures, b_pc>>
    /\ UNCHANGED <<compile_vars, worker_vars, phase_vars, read_vars, tool_vars>>

\* as_completed is exhausted: the executor is left and the aggregates merged
FinishResults ==
    /\ b_pc = "results"
    /\ yielded = maps
    /\ b_pc' = "merged"
    /\ UNCHANGED <<maps, futures, yielded, handled, converted, skipped_layout,
                   skipped_other, skipped_maps, world_builder_data, all_used_tiles>>
    /\ UNCHANGED <<compile_vars, worker_vars, phase_vars, read_vars, tool_vars>>

NextBatch ==
    \/ SubmitTasks
    \/ \E m \in maps : CompleteTask(m)
    \/ \E m \in maps : HandleResult(m)
    \/ FinishResults

\* every submitted task completes; the main thread keeps running its loop
SpecBatch ==
    /\ InitBatch
    /\ [][NextBatch]_vars
    /\ WF_vars(SubmitTasks)
    /\ \A m \in MapIds : WF_vars(m \in maps /\ CompleteTask(m))
    /\ \A m \in MapIds : WF_vars(m \in maps /\ HandleResult(m))
    /\ WF_vars(FinishResults)

(* ---------------------------------------------------------------------- *)
(* One call of convert_single_map with a task of main()                    *)
(* ---------------------------------------------------------------------- *)
InitWorker ==
    /\ w_args \in {ConversionTask(m) : m \in MapIds}
    /\ w_cond \in TaskConditions
    /\ w_out = <<>>
    /\ w_pc = "call"
    /\ maps_before = 0
    /\ ReadIdle
    /\ ToolsIdle
    /\ BatchIdle
    /\ CompileIdle

ConvertSingleMapCall ==
    /\ w_pc = "call"
    /\ w_out' = convert_single_map(w_args, w_cond)
    /\ w_pc' = "done"
    /\ UNCHANGED <<w_args, w_cond, maps_before>>
    /\ UNCHANGED <<compile_vars, batch_vars, read_vars, tool_vars>>

NextWorker == ConvertSingleMapCall

SpecWorker == InitWorker /\ [][NextWorker]_vars

(* ---------------------------------------------------------------------- *)
(* __main__.py: the consolidated tilesets and the remapping of the maps    *)
(* ---------------------------------------------------------------------- *)
\* tileset names are strings, here sequences of characters
Alphabet == {"C", "c", "a"}
ToLower == [ch \in Alphabet |-> IF ch = "C" THEN "c" ELSE ch]
TilesetNames == UNION {[1..n -> Alphabet] : n \in 1..MaxNameLen}

\* str.lower()
Lower(name) == List([i \in 1..Len(name) |-> ToLower[name[i]]])

\* Path(output_dir) / "Tilesets" / region / f"{tileset_name.lower()}.png"
ImagePath(output_dir, region, tileset_name) ==
    <<output_dir, "Tilesets", region, Lower(tileset_name), ".png">>

\* Path(output_dir) / "Tilesets" / region / f"{tileset_name.lower()}.json"
TilesetJsonPath(output_dir, region, tileset_name) ==
    <<output_dir, "Tilesets", region, Lower(tileset_name), ".json">>

\* the map files the remapping finds: *.json of every region directory
RegionDirs == {"hoenn", "kanto"}
MapFileNames == {"route101", "route102"}
MapFilePath(output_dir, region_dir, file) ==
    <<output_dir, "Definitions", "Maps", "Regions", region_dir, file, ".json">>
AllMapFiles == {MapFilePath("output", r, f) : r \in RegionDirs, f \in MapFileNames}

InitPhase ==
    /\ used_tiles \in {s \in SUBSET TilesetNames :
                          Cardinality(s) >= 1 /\ Cardinality(s) <= MaxTilesets}
    /\ map_files \in {s \in SUBSET AllMapFiles :
                          Cardinality(s) >= 1 /\ Cardinality(s) <= MaxTilesets}
    /\ ts_pc = <<>>
    /\ rm_pc = <<>>
    /\ writes = {}
    /\ p_pc = "submit"
    /\ maps = {}
    /\ futures = <<>>
    /\ yielded = {}
    /\ handled = <<>>
    /\ converted = 0
    /\ skipped_layout = 0
    /\ skipped_other = 0
    /\ skipped_maps = <<>>
    /\ world_builder_data = <<>>
    /\ all_used_tiles = {}
    /\ b_pc = "merged"
    /\ WorkerIdle
    /\ ReadIdle
    /\ ToolsIdle
    /\ CompileIdle

main_idle == <<maps, futures, yielded, handled, converted, skipped_layout,
               skipped_other, skipped_maps, world_builder_data, all_used_tiles, b_pc>>

\* executor.submit(create_tiled_tileset, tileset_name, ...) for every name
SubmitTilesets ==
    /\ p_pc = "submit"
    /\ ts_pc' = [n \in used_tiles |-> "image"]
    /\ p_pc' = "tilesets"
    /\ UNCHANGED <<used_tiles, map_files, rm_pc, writes>>
    /\ UNCHANGED <<main_idle, compile_vars, worker_vars, read_vars, tool_vars>>

\* create_tiled_tileset: image.save(str(image_path))
SaveTilesetImage(n) ==
    /\ p_pc = "tilesets"
    /\ ts_pc[n] = "image"
    /\ writes' = writes \cup
                   {[phase |-> "tilesets", task |-> n,
                     path |-> ImagePath("output", "hoenn", n)]}
    /\ ts_pc' = [ts_pc EXCEPT ![n] = "json"]
    /\ UNCHANGED <<used_tiles, map_files, rm_pc, p_pc>>
    /\ UNCHANGED <<main_idle, compile_vars, worker_vars, read_vars, tool_vars>>

\* create_tiled_tileset: json.dump(tileset, f) into tileset_path
SaveTilesetJson(n) ==
    /\ p_pc = "tilesets"
    /\ ts_pc[n] = "json"
    /\ writes' = writes \cup
                   {[phase |-> "tilesets", task |-> n,
                     path |-> TilesetJsonPath("output", "hoenn", n)]}
    /\ ts_pc' = [ts_pc EXCEPT ![n] = "done"]
    /\ UNCHANGED <<used_tiles, map_files, rm_pc, p_pc>>
    /\ UNCHANGED <<main_idle, compile_vars, worker_vars, read_vars, tool_vars>>

\* the tileset executor is left; executor.submit(remap_single_map, ...) for
\* every map file
SubmitRemaps ==
    /\ p_pc = "tilesets"
    /\ \A n \in used_tiles : ts_pc[n] = "done"
    /\ rm_pc' = [f \in map_files |-> "remap"]
    /\ p_pc' = "remap"
    /\ UNCHANGED <<used_tiles, ts_pc, map_files, writes>>
    /\ UNCHANGED <<main_idle, compile_vars, worker_vars, read_vars, tool_vars>>

\* remap_map_tiles: save_json(map_data, str(map_path))
RemapMap(f) ==
    /\ p_pc = "remap"
    /\ rm_pc[f] = "remap"
    /\ writes' = writes \cup {[phase |-> "remap", task |-> f, path |-> f]}
    /\ rm_pc' = [rm_pc EXCEPT ![f] = "done"]
    /\ UNCHANGED <<used_tiles, ts_pc, map_files, p_pc>>
    /\ UNCHANGED <<main_idle, compile_vars, worker_vars, read_vars, tool_vars>>

FinishRemaps ==
    /\ p_pc = "remap"
    /\ \A f \in map_files : rm_pc[f] = "done"
    /\ p_pc' = "end"
    /\ UNCHANGED <<used_tiles, ts_pc, map_files, rm_pc, writes>>
    /\ UNCHANGED <<main_idle, compile_vars, worker_vars, read_vars, tool_vars>>

NextPhase ==
    \/ SubmitTilesets
    \/ \E n \in used_tiles : SaveTilesetImage(n)
    \/ \E n \in used_tiles : SaveTilesetJson(n)
    \/ SubmitRemaps
    \/ \E f \in map_files : RemapMap(f)
    \/ FinishRemaps

SpecPhase == InitPhase /\ [][NextPhase]_vars

(* ---------------------------------------------------------------------- *)
(* Reading the grid file (read_map_bin, _read_and_validate_map_data)       *)
(* ---------------------------------------------------------------------- *)
\* the byte values of the grid files: low and high bytes of the entries
\* 0, 2, 512 and 514
FileBytes == {0, 2}
MapBinFiles == UNION {[1..n -> FileBytes] : n \in 0..MaxFileLen}

\* struct.unpack('<H', data[i:i+2])[0]
UnpackU16(data, i) == data[i + 1] + 256 * data[i + 2]

\* the entries list of read_map_bin: one entry per i in range(0, len(data), 2)
\* with i + 1 < len(data)
RECURSIVE ReadEntries(_, _)
ReadEntries(data, i) ==
    IF i >= Len(data) THEN <<>>
    ELSE IF i + 1 < Len(data)
         THEN <<UnpackU16(data, i)>> \o ReadEntries(data, i + 2)
         ELSE ReadEntries(data, i + 2)

ReadOk(v) == [raised |-> "", value |-> v]
ReadRaised(e) == [raised |-> e, value |-> <<>>]

\* MapReader.read_map_bin of an existing file
read_map_bin(data, w, h) ==
    LET Reshape(entries) ==
            IF Len(entries) # w * h
            THEN ReadRaised("ValueError")
            ELSE ReadOk([y \in 1..h |-> [x \in 1..w |-> entries[(y - 1) * w + (x - 1) + 1]]])
    IN  Reshape(ReadEntries(data, 0))

HalfDimRoundedUp(d) == (d + 1) \div 2
\* half_width = width // 2, half_height = height // 2
HalfDim(d) == d \div 2

\* MapConverter._read_and_validate_map_data: the first read, and what the
\* function gives: "ok" with (map_entries, width, height), "none" or "raised"
read_and_validate_map_data(data, w, h) ==
    LET Given(first, status, entries, rw, rh) ==
            [first |-> first, status |-> status, map_entries |-> entries,
             width |-> rw, height |-> rh]
        Recover(first, actual_entries, half_width, half_height) ==
            IF actual_entries # w * h
            THEN IF half_width > 0 /\ half_height > 0
                    /\ actual_entries = half_width * half_height
                 THEN LET Again(second) ==
                              IF second.raised = ""
                              THEN Given(first.raised, "ok", second.value,
                                         half_width, half_height)
                              ELSE Given(first.raised, "raised", <<>>, 0, 0)
                      IN  Again(read_map_bin(data, half_width, half_height))
                 ELSE Given(first.raised, "none", <<>>, 0, 0)
            ELSE Given(first.raised, "raised", <<>>, 0, 0)
        Handle(first) ==
            IF first.raised = ""
            THEN Given("", "ok", first.value, w, h)
            ELSE IF first.raised = "ValueError"
                 THEN Recover(first, Len(data) \div 2, HalfDim(w), HalfDim(h))
                 ELSE Given(first.raised, "none", <<>>, 0, 0)
    IN  Handle(read_map_bin(data, w, h))

\* convert_map_with_metatiles at its call of _read_and_validate_map_data
InitRead ==
    /\ banks = DefaultBanks
    /\ map_bin \in MapBinFiles
    /\ layout_width \in 1..MaxLayoutDim
    /\ layout_height \in 1..MaxLayoutDim
    /\ rd_out = <<>>
    /\ width = 0
    /\ height = 0
    /\ map_entries = <<>>
    /\ border_data = <<>>
    /\ anim_files = {}
    /\ pc = "read_map"
    /\ cell = 0
    /\ used_metatiles = <<>>
    /\ metatile_to_gid = <<>>
    /\ tile_id_to_gids = <<>>
    /\ metatile_composition = <<>>
    /\ image_to_gid = <<>>
    /\ next_gid = 1
    /\ border_gids = <<>>
    /\ layers = <<>>
    /\ tileset_image = <<>>
    /\ animations = <<>>
    /\ tiled_map = <<>>
    /\ r_tiles = <<>>
    /\ r_pc = "idle"
    /\ grid_image = <<>>
    /\ BatchIdle
    /\ WorkerIdle
    /\ ToolsIdle

\* result = self._read_and_validate_map_data(layout); a None ends the
\* compilation, an exception leaves convert_map_with_metatiles
ReadAndValidateMapData ==
    /\ pc = "read_map"
    /\ \E result \in {read_and_validate_map_data(map_bin, layout_width, layout_height)} :
          /\ rd_out' = [first |-> result.first, status |-> result.status]
          /\ map_entries' = result.map_entries
          /\ width' = result.width
          /\ height' = result.height
          /\ pc' = IF result.status = "ok" THEN "process_metatiles"
                   ELSE IF result.status = "none" THEN "failed" ELSE "raised"
    /\ UNCHANGED <<banks, border_data, anim_files, render_idle, cell, used_metatiles,
                   metatile_to_gid, tile_id_to_gids, metatile_composition,
                   image_to_gid, next_gid, border_gids, layers, tileset_image,
                   animations, tiled_map>>
    /\ UNCHANGED <<batch_vars, worker_vars, map_bin, layout_width, layout_height, tool_vars>>

NextRead ==
    \/ ReadAndValidateMapData
    \/ Next

SpecRead == InitRead /\ [][NextRead]_vars

(* ---------------------------------------------------------------------- *)
(* Maps with animated and static metatiles of the same pixels              *)
(* ---------------------------------------------------------------------- *)
\* entries of the grid: the animated metatiles 0, 2, 512 and 514, the static
\* metatiles 1 and 513 (513 with collision bits)
AnimGridEntries == {0, 1, 2, 512, 513 + 1024, 514}

\* how the frame files are stored: tile strips only, 16x16 frames for the
\* flower animation, or 16x16 frames for flower and windy water
AnimFrameFileKinds == {{}, {"flower"}, {"flower", "windy_water"}}

InitAnim ==
    /\ banks = DefaultBanks
    /\ width \in 1..MaxWidth
    /\ height \in 1..MaxHeight
    /\ map_entries \in [1..height -> [1..width -> AnimGridEntries]]
    /\ Cardinality({map_entries[y][x] : y \in 1..height, x \in 1..width}) <= MaxDistinct
    /\ border_data \in BorderFiles
    /\ anim_files \in AnimFrameFileKinds
    /\ InitCompile
    /\ BatchIdle
    /\ WorkerIdle
    /\ ReadIdle
    /\ ToolsIdle

SpecAnim == InitAnim /\ [][Next]_vars

(* ---------------------------------------------------------------------- *)
(* Maps with metatile ids outside the composition tables                   *)
(* ---------------------------------------------------------------------- *)
\* entries of the grid: the static metatile 1, the transparent metatile 5,
\* the truncated metatile 6, and 515 and 516, which the secondary table does
\* not hold (515 with an elevation bit)
OobGridEntries == {1, 5, 6, 515 + 4096, 516}

InitOob ==
    /\ banks = DefaultBanks
    /\ width \in 1..MaxWidth
    /\ height \in 1..MaxHeight
    /\ map_entries \in [1..height -> [1..width -> OobGridEntries]]
    /\ Cardinality({map_entries[y][x] : y \in 1..height, x \in 1..width}) <= MaxDistinct
    /\ border_data \in BorderFiles
    /\ anim_files \in FrameFileKinds
    /\ InitCompile
    /\ BatchIdle
    /\ WorkerIdle
    /\ ReadIdle
    /\ ToolsIdle

SpecOob == InitOob /\ [][Next]_vars

(* ---------------------------------------------------------------------- *)
(* animation_scanner.py: the durations of the animations                   *)
(* ---------------------------------------------------------------------- *)
\* the animations of the "general" catalog the scanner is asked for
ScanTileset == "general"
ScanAnims == <<"flower", "waterfall">>

\* "interval frames at 60fps"
FramesPerSecond == 60
\* anim_intervals.get(key, 16)
DefaultInterval == 16

\* src/tileset_anims.c as the two patterns see it. interval[a] is the number of
\* "if (timer % N == d) QueueAnimTiles_General_A(timer / N)", 0 when no call
\* matches; frames[a] is the number of FrameN names in gTilesetAnims_General_A[],
\* -1 when there is no such array
AnimsCFiles ==
    {[exists |-> FALSE, interval |-> <<0, 0>>, frames |-> <<-1, -1>>]}
    \cup {[exists |-> TRUE, interval |-> <<i, j>>, frames |-> <<f, g>>] :
              i \in 0..MaxInterval, j \in {0, 8}, f \in {-1, 0, 4}, g \in {-1, 4}}

\* key = f"{tileset_name}_{anim_name}"
AnimKey(tileset_name, anim_name) == <<tileset_name, anim_name>>

\* for match in anim_call_pattern.finditer(content): anim_intervals[key] = interval
RECURSIVE ParseIntervals(_, _, _)
ParseIntervals(acc, c, a) ==
    IF a > Len(ScanAnims) THEN acc
    ELSE ParseIntervals(IF c.interval[a] > 0
                        THEN DictPut(acc, AnimKey(ScanTileset, ScanAnims[a]), c.interval[a])
                        ELSE acc, c, a + 1)

\* duration_ms = int((interval / 60.0) * 1000): the float product cut to an
\* integer (for intervals below 969 the float product has the integer part of
\* the exact quotient)
DurationMs(interval) == (interval * 1000) \div FramesPerSecond

\* for match in anim_array_pattern.finditer(content): if frame_count > 0, the
\* duration of the key is recorded, with interval 16 when no call gave one
RECURSIVE ParseArrays(_, _, _, _)
ParseArrays(acc, anim_intervals, c, a) ==
    IF a > Len(ScanAnims) THEN acc
    ELSE LET key == AnimKey(ScanTileset, ScanAnims[a])
             interval == DictGet(anim_intervals, key, DefaultInterval)
         IN  ParseArrays(IF c.frames[a] > 0
                         THEN DictPut(acc, key, DurationMs(interval))
                         ELSE acc, anim_intervals, c, a + 1)

\* _parse_tileset_anims(): the "tileset_anim" -> duration_ms table
parse_tileset_anims(c) ==
    IF ~c.exists THEN <<>>
    ELSE ParseArrays(<<>>, ParseIntervals(<<>>, c, 1), c, 1)

\* the "duration_ms" of extract_all_animation_tiles for one catalog entry
ResultDuration(durations, tileset_name, anim_def) ==
    LET anim_key == AnimKey(tileset_name, anim_def.anim_name)
    IN  IF DictHas(durations, anim_key) THEN DictGet(durations, anim_key, 0)
        ELSE anim_def.duration_ms

\* extract_all_animation_tiles(tileset_name): animation -> duration_ms, the
\* frame files of every catalog entry being on disk
RECURSIVE ExtractDurations(_, _, _, _)
ExtractDurations(acc, durations, tileset_name, defs) ==
    IF defs = <<>> THEN acc
    ELSE ExtractDurations(
             DictPut(acc, Head(defs).anim_name,
                     ResultDuration(durations, tileset_name, Head(defs))),
             durations, tileset_name, Tail(defs))

InitScan ==
    /\ anims_c \in AnimsCFiles
    /\ tileset_anim_durations = <<>>
    /\ anim_result = <<>>
    /\ sc_pc = "init"
    /\ CacheIdle
    /\ ReadIdle
    /\ BatchIdle
    /\ WorkerIdle
    /\ CompileIdle

\* AnimationScanner(input_dir): __init__ parses tileset_anims.c
ParseTilesetAnims ==
    /\ sc_pc = "init"
    /\ tileset_anim_durations' = parse_tileset_anims(anims_c)
    /\ sc_pc' = "parsed"
    /\ UNCHANGED <<anims_c, anim_result, cache_vars>>
    /\ UNCHANGED <<compile_vars, batch_vars, worker_vars, read_vars>>

\* scanner.extract_all_animation_tiles("general")
ExtractAllAnimationTiles ==
    /\ sc_pc = "parsed"
    /\ anim_result' = ExtractDurations(<<>>, tileset_anim_durations, ScanTileset,
                                       GeneralAnimations)
    /\ sc_pc' = "extracted"
    /\ UNCHANGED <<anims_c, tileset_anim_durations, cache_vars>>
    /\ UNCHANGED <<compile_vars, batch_vars, worker_vars, read_vars>>

NextScan ==
    \/ ParseTilesetAnims
    \/ ExtractAllAnimationTiles

SpecScan == InitScan /\ [][NextScan]_vars

(* ---------------------------------------------------------------------- *)
(* metatile_renderer.py: the caches of MetatileRenderer                    *)
(* ---------------------------------------------------------------------- *)
\* the tileset names the renderer is asked for; "nowhere" has no directory
CacheNames == {"general", "rustboro", "nowhere"}
OnDisk(tileset_name) == tileset_name # "nowhere"

\* Image.open(tileset_path) of a tileset on disk; <<>> stands for None
TilesetImageOf(tileset_name) ==
    IF OnDisk(tileset_name) THEN <<"tiles.png", tileset_name>> ELSE <<>>
\* load_tileset_palettes(tileset_dir) of a tileset on disk; <<>> is []
PalettesOf(tileset_name) ==
    IF OnDisk(tileset_name) THEN <<"palettes", tileset_name>> ELSE <<>>

\* del cache[name]
DictDel(d, k) == SelectSeq(d, LAMBDA e : e[1] # k)

\* cache.move_to_end(name)
move_to_end_kept(cache, name) == cache
move_to_end(cache, name) == Append(DictDel(cache, name), <<name, DictGet(cache, name, <<>>)>>)

\* _cache_tileset_image(tileset_name, image)
cache_tileset_image(cache, tileset_name, image, max) ==
    LET removed == IF DictHas(cache, tileset_name) THEN DictDel(cache, tileset_name)
                   ELSE cache
        evicted == IF Len(removed) >= max THEN Tail(removed) ELSE removed
    IN  Append(evicted, <<tileset_name, image>>)

\* _cache_palettes(tileset_name, palettes)
cache_palettes(cache, tileset_name, palettes, max) ==
    LET removed == IF DictHas(cache, tileset_name) THEN DictDel(cache, tileset_name)
                   ELSE cache
        evicted == IF Len(removed) >= max THEN Tail(removed) ELSE removed
    IN  Append(evicted, <<tileset_name, palettes>>)

\* load_tileset_image(tileset_name): the cache after the call and the result
load_tileset_image(cache, tileset_name, max) ==
    IF DictHas(cache, tileset_name)
    THEN [cache |-> move_to_end(cache, tileset_name),
          result |-> DictGet(cache, tileset_name, <<>>), hit |-> TRUE]
    ELSE [cache |-> cache_tileset_image(cache, tileset_name,
                                        TilesetImageOf(tileset_name), max),
          result |-> TilesetImageOf(tileset_name), hit |-> FALSE]

\* load_tileset_palettes_cached(tileset_name)
load_tileset_palettes_cached(cache, tileset_name, max) ==
    IF DictHas(cache, tileset_name)
    THEN [cache |-> move_to_end(cache, tileset_name),
          result |-> DictGet(cache, tileset_name, <<>>), hit |-> TRUE]
    ELSE [cache |-> cache_palettes(cache, tileset_name, PalettesOf(tileset_name), max),
          result |-> PalettesOf(tileset_name), hit |-> FALSE]

\* the names of the entries of a cache
CacheKeys(cache) == {cache[i][1] : i \in 1..Len(cache)}

\* what is kept of a call: the cache it found, what it gave and what it evicted
CallRecord(which, before, tileset_name, r) ==
    [cache |-> which, name |-> tileset_name, before |-> before, hit |-> r.hit,
     result |-> r.result, evicted |-> CacheKeys(before) \ CacheKeys(r.cache)]

\* MetatileRenderer(input_dir, max_cache_size)
InitCache ==
    /\ max_cache_size \in 1..MaxCacheSize
    /\ tileset_cache = <<>>
    /\ palette_cache = <<>>
    /\ last_call = [cache |-> "none", name |-> "", before |-> <<>>, hit |-> FALSE,
                    result |-> <<>>, evicted |-> {}]
    /\ calls = [tileset |-> <<>>, palette |-> <<>>]
    /\ ScanIdle
    /\ ReadIdle
    /\ BatchIdle
    /\ WorkerIdle
    /\ CompileIdle

LoadTilesetImage ==
    /\ Len(calls.tileset) + Len(calls.palette) < MaxCalls
    /\ \E tileset_name \in CacheNames :
          \E r \in {load_tileset_image(tileset_cache, tileset_name, max_cache_size)} :
              /\ tileset_cache' = r.cache
              /\ last_call' = CallRecord("tileset", tileset_cache, tileset_name, r)
              /\ calls' = [calls EXCEPT !.tileset = Append(@, tileset_name)]
    /\ UNCHANGED <<max_cache_size, palette_cache, scan_vars>>
    /\ UNCHANGED <<compile_vars, batch_vars, worker_vars, read_vars>>

LoadTilesetPalettesCached ==
    /\ Len(calls.tileset) + Len(calls.palette) < MaxCalls
    /\ \E tileset_name \in CacheNames :
          \E r \in {load_tileset_palettes_cached(palette_cache, tileset_name,
                                                 max_cache_size)} :
              /\ palette_cache' = r.cache
              /\ last_call' = CallRecord("palette", palette_cache, tileset_name, r)
              /\ calls' = [calls EXCEPT !.palette = Append(@, tileset_name)]
    /\ UNCHANGED <<max_cache_size, tileset_cache, scan_vars>>
    /\ UNCHANGED <<compile_vars, batch_vars, worker_vars, read_vars>>

NextCache ==
    \/ LoadTilesetImage
    \/ LoadTilesetPalettesCached

SpecCache == InitCache /\ [][NextCache]_vars

(* ---------------------------------------------------------------------- *)
(* The renderer on its own: one call of _render_tile_grid                  *)
(* ---------------------------------------------------------------------- *)
RenderTileIds == {0, 1, 17, 512, 513, 530}
RenderPalettes == {0, 3, 5, 6, 7, 15}
RenderRefs == {<<t, f, p>> : t \in RenderTileIds, f \in 0..3, p \in RenderPalettes}

RenderBanks ==
    {[rows |-> [n \in BankNames |-> IF n = PrimaryName THEN pr ELSE sr],
      pal  |-> [n \in BankNames |->
                  IF n = PrimaryName
                  THEN (IF pp THEN [s \in 1..16 |-> s # 4] ELSE <<>>)
                  ELSE [s \in 1..16 |-> s # 16]],
      trns |-> [n \in BankNames |-> tr]] :
        pr \in {0, 1, 32}, sr \in {0, 1}, pp \in BOOLEAN, tr \in BOOLEAN}


InitRender ==
    /\ banks \in RenderBanks
    /\ r_tiles \in {<<a, c, <<0, 0, 0>>, <<1, 0, 0>>>> :
                       a \in RenderRefs, c \in {<<0, 0, 0>>, <<513, 1, 6>>}}
    /\ r_pc = "call"
    /\ grid_image = <<>>
    /\ width = 0
    /\ height = 0
    /\ map_entries = <<>>
    /\ border_data = <<>>
    /\ anim_files = {}
    /\ pc = "idle"
    /\ cell = 0
    /\ used_metatiles = <<>>
    /\ metatile_to_gid = <<>>
    /\ tile_id_to_gids = <<>>
    /\ metatile_composition = <<>>
    /\ image_to_gid = <<>>
    /\ next_gid = 1
    /\ border_gids = <<>>
    /\ layers = <<>>
    /\ tileset_image = <<>>
    /\ animations = <<>>
    /\ tiled_map = <<>>
    /\ BatchIdle
    /\ WorkerIdle
    /\ ReadIdle
    /\ ToolsIdle

RenderTileGridCall ==
    /\ r_pc = "call"
    /\ grid_image' = render_tile_grid(r_tiles, PrimaryName, SecondaryName, banks)
    /\ r_pc' = "done"
    /\ UNCHANGED <<banks, r_tiles, width, height, map_entries, border_data,
                   anim_files, pc, cell, used_metatiles, metatile_to_gid,
                   tile_id_to_gids, metatile_composition, image_to_gid, next_gid,
                   border_gids, layers, tileset_image, animations, tiled_map>>
    /\ UNCHANGED <<batch_vars, worker_vars, read_vars, tool_vars>>

NextRender == RenderTileGridCall

SpecRender == InitRender /\ [][NextRender]_vars

(* ---------------------------------------------------------------------- *)
(* Properties of the renderer                                              *)
(* ---------------------------------------------------------------------- *)
QuadOf(img, idx) == Crop(img, QuadX(idx), QuadY(idx), TileDim, TileDim)
TransparentTile == NewImage(TileDim, TileDim, Transparent)
RenderDone == r_pc = "done" /\ grid_image # <<>>

\* the bank and index that the VRAM rule names for tile id t
VramBank(t) ==
    IF t < NUM_TILES_IN_PRIMARY_VRAM THEN PrimaryName
    ELSE IF /\ HasTilesetImage(SecondaryName, banks)
            /\ t - NUM_TILES_IN_PRIMARY_VRAM <= MaxTileId(SecondaryName, banks)
         THEN SecondaryName
         ELSE PrimaryName
VramIndex(t) ==
    IF t < NUM_TILES_IN_PRIMARY_VRAM THEN t ELSE t - NUM_TILES_IN_PRIMARY_VRAM
VramAvailable(t) ==
    /\ HasTilesetImage(VramBank(t), banks)
    /\ VramIndex(t) <= MaxTileId(VramBank(t), banks)

\* a quadrant as it looks when its pixels are those of tile `index` of `bank`
QuadFrom(bank, index, palBank, ref) ==
    Paste(TransparentTile,
          FlipTile(ColourTile(extract_tile(bank, index), bank, palBank, ref[3], banks),
                   ref[2]),
          0, 0)

\* C3: every rendered tile id t in 1..1023 shows primary[t] when t < 512, and
\* for t >= 512 secondary[t-512] when the secondary raster exists and has that
\* index, otherwise primary[t-512]; a quadrant whose source has no such tile
\* stays transparent.
C3_RasterSource ==
    RenderDone =>
        \A idx \in 1..4 :
            LET ref == r_tiles[idx]
            IN  ref[1] # 0 =>
                  QuadOf(grid_image, idx) =
                    IF VramAvailable(ref[1])
                    THEN QuadFrom(VramBank(ref[1]), VramIndex(ref[1]),
                                  PaletteSource(ref[3], PrimaryName, SecondaryName), ref)
                    ELSE TransparentTile

\* a tile id >= 512 drawn from the primary raster at t-512, the secondary
\* raster being missing, and visible in the image
C3_Witness ==
    /\ RenderDone
    /\ r_tiles[1][1] = 530
    /\ ~HasTilesetImage(SecondaryName, banks)
    /\ VramAvailable(530)
    /\ QuadOf(grid_image, 1) # TransparentTile

\* C4: the palette of a rendered tile is slot p of the primary bank when
\* p < 6 and slot p of the secondary bank when p >= 6, whichever bank supplied
\* the raster (a slot without a loaded palette leaves the embedded colours).
C4_PaletteSource ==
    RenderDone =>
        \A idx \in 1..4 :
            LET ref == r_tiles[idx]
                src == ResolveRaster(ref[1], PrimaryName, SecondaryName, banks)
            IN  (ref[1] # 0 /\ src.found) =>
                  QuadOf(grid_image, idx) =
                    QuadFrom(src.tileset, src.tile,
                             IF ref[3] < 6 THEN PrimaryName ELSE SecondaryName, ref)

\* a primary-raster tile coloured by a loaded secondary palette, and a tile
\* drawn from the primary raster by fallback coloured by a secondary palette
C4_Witness ==
    /\ RenderDone
    /\ r_tiles[1] = <<530, 0, 6>>
    /\ ResolveRaster(530, PrimaryName, SecondaryName, banks).tileset = PrimaryName
    /\ ResolveRaster(530, PrimaryName, SecondaryName, banks).found
    /\ \E y \in 1..TileDim, x \in 1..TileDim :
          QuadOf(grid_image, 1)[y][x][1] = 206

\* C5: every pixel of a rendered quadrant whose source colour index is 0 has
\* alpha 0 in the composite, for every bank and palette slot, also when the
\* slot has no palette or the bank has no palettes loaded.
C5_IndexZeroTransparent ==
    RenderDone =>
        \A idx \in 1..4 :
            LET ref == r_tiles[idx]
                src == ResolveRaster(ref[1], PrimaryName, SecondaryName, banks)
            IN  (ref[1] # 0 /\ src.found) =>
                  \A y \in 1..TileDim, x \in 1..TileDim :
                      FlipTile(extract_tile(src.tileset, src.tile), ref[2])[y][x] = 0
                        => QuadOf(grid_image, idx)[y][x][4] = 0

(* ---------------------------------------------------------------------- *)
(* Properties of one map compilation                                       *)
(* ---------------------------------------------------------------------- *)
\* "firstgid" of the map's tileset: the local tile id of an animation entry
\* names the slot id + FirstGid
FirstGid == 1

\* the composite a key of metatile_to_gid stands for
HalfImage(k) ==
    LET imgs == DictGet(used_metatiles, <<k[1], k[2], k[3]>>, <<>>)
    IN  IF k[4] THEN imgs[2] ELSE imgs[1]

\* the bytes of the composites internalized so far, in the order of metatile_to_gid
InternalizedBytes ==
    List([i \in 1..Len(metatile_to_gid) |-> ToBytes(HalfImage(metatile_to_gid[i][1]))])

\* C1: at every point of a map compilation, two internalized composites (of
\* grid cells or border corners, of any metatile, half or layer type) have the
\* same slot id exactly when their pixel content is byte-identical.
C1_SameContentSameSlot ==
    LET bytes == InternalizedBytes
    IN  \A i, j \in 1..Len(metatile_to_gid) :
            (bytes[i] = bytes[j]) <=> (metatile_to_gid[i][2] = metatile_to_gid[j][2])

\* two different metatiles with byte-identical bottom composites share a slot,
\* while the run also holds composites with different content
C1_Witness ==
    /\ pc = "done"
    /\ \E i, j \in 1..Len(metatile_to_gid) :
          /\ metatile_to_gid[i][1][1] # metatile_to_gid[j][1][1]
          /\ ~metatile_to_gid[i][1][4] /\ ~metatile_to_gid[j][1][4]
          /\ HalfImage(metatile_to_gid[i][1]) # EmptyMetatileImage
          /\ metatile_to_gid[i][2] = metatile_to_gid[j][2]
    /\ \E i, j \in 1..Len(metatile_to_gid) :
          metatile_to_gid[i][2] # metatile_to_gid[j][2]

\* one step of the compilation seen from the slot counter
C2_Step ==
    /\ next_gid' >= next_gid
    /\ next_gid' - next_gid = Len(image_to_gid') - Len(image_to_gid)
    /\ \A i \in 1..Len(image_to_gid) :
          /\ i <= Len(image_to_gid')
          /\ image_to_gid'[i] = image_to_gid[i]
    /\ \A i \in 1..Len(image_to_gid') : image_to_gid'[i][2] >= 1
    /\ \A i, j \in 1..Len(image_to_gid') :
          i # j => /\ image_to_gid'[i][1] # image_to_gid'[j][1]
                   /\ image_to_gid'[i][2] # image_to_gid'[j][2]
    /\ \A i \in 1..Len(metatile_to_gid') : metatile_to_gid'[i][2] # 0

\* C2: the slot counter starts at 1 and never decreases; every step advances
\* it by exactly the number of contents it internalized for the first time;
\* no composite gets slot id 0; the id of a content never changes and no two
\* contents hold the same id.
C2_CounterFromOne == (next_gid = 1) /\ [][C2_Step]_vars

\* a finished run that internalized three different contents and met a
\* content it had seen before
C2_Witness ==
    /\ pc = "done"
    /\ next_gid = 4
    /\ Len(image_to_gid) = 3
    /\ Len(metatile_to_gid) > 3

\* the layer type and the two slots of the metatile of a cell (idx from 0)
CellLayerType(idx) ==
    LET m == CellMetatile(EntryAt(map_entries, width, idx))
    IN  AttrGet(AttributesOf(m[1]), m[2])
CellSlot(idx, top) ==
    LET m == CellMetatile(EntryAt(map_entries, width, idx))
    IN  DictGet(metatile_to_gid, <<m[2], m[1], CellLayerType(idx), top>>, 0)

\* C6: in the compiled map, every cell holds its metatile's bottom and top slot
\* on the planes its layer type names (Normal: Objects and Overhead, Covered:
\* Ground and Objects, Split: Ground and Overhead) and 0 on the third plane.
C6_LayerRouting ==
    tiled_map # <<>> =>
        \A i \in 1..(width * height) :
            /\ CellLayerType(i - 1) = NORMAL =>
                  /\ tiled_map.Objects[i] = CellSlot(i - 1, FALSE)
                  /\ tiled_map.Overhead[i] = CellSlot(i - 1, TRUE)
                  /\ tiled_map.Ground[i] = 0
            /\ CellLayerType(i - 1) = COVERED =>
                  /\ tiled_map.Ground[i] = CellSlot(i - 1, FALSE)
                  /\ tiled_map.Objects[i] = CellSlot(i - 1, TRUE)
                  /\ tiled_map.Overhead[i] = 0
            /\ CellLayerType(i - 1) = SPLIT =>
                  /\ tiled_map.Ground[i] = CellSlot(i - 1, FALSE)
                  /\ tiled_map.Overhead[i] = CellSlot(i - 1, TRUE)
                  /\ tiled_map.Ground[i] # 0
                  /\ tiled_map.Objects[i] = 0

\* a compiled map with a Covered cell and a Split cell whose bottom and top
\* slots differ
C6_Witness ==
    /\ tiled_map # <<>>
    /\ \E i \in 1..(width * height) :
          /\ CellLayerType(i - 1) = COVERED
          /\ CellSlot(i - 1, FALSE) # CellSlot(i - 1, TRUE)
          /\ CellSlot(i - 1, FALSE) # 0 /\ CellSlot(i - 1, TRUE) # 0
    /\ \E i \in 1..(width * height) :
          /\ CellLayerType(i - 1) = SPLIT
          /\ CellSlot(i - 1, FALSE) # CellSlot(i - 1, TRUE)

\* the compiled 2x2 map whose four cells are metatile 5
AllMetatileFive ==
    /\ pc = "done"
    /\ width = 2 /\ height = 2
    /\ \A i \in 1..4 : extract_metatile_id(EntryAt(map_entries, width, i - 1)) = 5

\* what the scenario of the 2x2 map of metatile 5 yields, but for the relation
\* of the two slot ids
MetatileFiveCompiled ==
    /\ CellLayerType(0) = COVERED
    /\ HalfImage(<<5, PrimaryName, COVERED, FALSE>>) = EmptyMetatileImage
    /\ HalfImage(<<5, PrimaryName, COVERED, TRUE>>) = EmptyMetatileImage
    /\ CellSlot(0, FALSE) # 0
    /\ CellSlot(0, TRUE) # 0
    /\ \A i \in 1..4 :
          /\ tiled_map.Ground[i] = CellSlot(0, FALSE)
          /\ tiled_map.Objects[i] = CellSlot(0, TRUE)
          /\ tiled_map.Overhead[i] = 0

\* C7 as stated: the 2x2 map of metatile 5 (Covered, every tile id 0) compiles
\* to two fully transparent composites, the bottom on Ground and the top on
\* Objects in all four cells, Overhead 0, and the two composites have distinct
\* non-zero slot ids.
C7_DistinctSlots ==
    AllMetatileFive =>
        /\ MetatileFiveCompiled
        /\ CellSlot(0, FALSE) # CellSlot(0, TRUE)

\* C7 amended: the same, but the two composites, being byte-identical, have
\* one and the same non-zero slot id.
C7_SharedSlot ==
    AllMetatileFive =>
        /\ MetatileFiveCompiled
        /\ CellSlot(0, FALSE) = CellSlot(0, TRUE)

\* the 2x2 map of metatile 5, compiled
C7_Witness ==
    /\ AllMetatileFive
    /\ tiled_map.Ground = <<1, 1, 1, 1>>
    /\ tiled_map.Objects = <<1, 1, 1, 1>>

\* the animations are built and every cell of the map is metatile 0, whose
\* bottom half holds one tile of the flower animation (playback 0, 1, 0, 2)
\* and whose top half holds no animated tile
AllMetatileZero ==
    /\ pc \in {"create_map", "done"}
    /\ \A i \in 1..(width * height) :
          extract_metatile_id(EntryAt(map_entries, width, i - 1)) = 0

\* C8: a used metatile with one animated tile (playback order 0, 1, 0, 2) in
\* its bottom half and none in its top half gets exactly one timeline entry,
\* keyed by the slot of its bottom half, with exactly 4 frames, the frames at
\* positions 0 and 2 carrying the same frame slot; for pre-rendered frames and
\* for tile strips alike.
C8_RepeatedFrameSharesSlot ==
    AllMetatileZero =>
        /\ Len(animations) = 1
        /\ animations[1].id + FirstGid = CellSlot(0, FALSE)
        /\ Len(animations[1].animation) = 4
        /\ animations[1].animation[1].tileid = animations[1].animation[3].tileid

\* the same for pre-rendered 16x16 frames only
C8_PreRenderedSharesSlot ==
    (AllMetatileZero /\ "flower" \in anim_files) =>
        /\ Len(animations) = 1
        /\ animations[1].id + FirstGid = CellSlot(0, FALSE)
        /\ Len(animations[1].animation) = 4
        /\ animations[1].animation[1].tileid = animations[1].animation[3].tileid

\* the tile-strip case: four frames, positions 0 and 2 on different slots that
\* hold the same pixels
C8_Witness ==
    /\ AllMetatileZero
    /\ anim_files = {}
    /\ Len(animations) = 1
    /\ Len(animations[1].animation) = 4
    /\ animations[1].animation[1].tileid # animations[1].animation[3].tileid
    /\ tileset_image[animations[1].animation[1].tileid + 1]
         = tileset_image[animations[1].animation[3].tileid + 1]

\* the flower animation of the catalog
Flower == GeneralAnimations[1]

\* the animations are built and the map holds metatile 0, whose tile at
\* position 0 is tile 508 of the flower animation with the horizontal flip set
HasMetatileZero ==
    /\ pc \in {"create_map", "done"}
    /\ \E i \in 1..(width * height) :
          extract_metatile_id(EntryAt(map_entries, width, i - 1)) = 0

\* the tile of frame position f (from 1) that replaces tile 508: the tile of
\* the strip, or the same quadrant of the pre-rendered frame
FlowerSourceTile(f) ==
    IF IsMetatile(Flower, anim_files)
    THEN Crop(FrameImage(Flower, Flower.frame_sequence[f], anim_files),
              0, 0, TileDim, TileDim)
    ELSE FrameImage(Flower, Flower.frame_sequence[f] * Flower.num_tiles, anim_files)

\* quadrant 0 of a frame with the source tile horizontally flipped over what
\* lies under it
FlippedQuadrant(under, f) == Paste(under, FlipLR(FlowerSourceTile(f)), 0, 0)

\* every frame of the entries of the bottom half of metatile 0 shows the
\* animated quadrant horizontally flipped
FlowerFramesFlipped ==
    \A e \in 1..Len(animations) :
        animations[e].id + FirstGid = DictGet(metatile_to_gid,
                                              <<0, PrimaryName, NORMAL, FALSE>>, 0)
        => /\ Len(animations[e].animation) = Len(Flower.frame_sequence)
           /\ \A f \in 1..Len(animations[e].animation) :
                 QuadOf(tileset_image[animations[e].animation[f].tileid + 1], 1)
                   = FlippedQuadrant(
                         IF IsMetatile(Flower, anim_files) THEN TransparentTile
                         ELSE QuadOf(HalfImage(<<0, PrimaryName, NORMAL, FALSE>>), 1),
                         f)

\* C9 as stated: a horizontally flipped TileRef on an animated tile shows the
\* animated quadrant horizontally flipped in every frame generated for its
\* half, for tile-strip frames and for pre-rendered 16x16 frames.
C9_FlipInEveryFrame == HasMetatileZero => FlowerFramesFlipped

\* C9 amended: the same for animations whose frames are 8x8 tile strips; a
\* pre-rendered 16x16 frame is pasted as it is.
C9_FlipInEveryStripFrame ==
    (HasMetatileZero /\ ~IsMetatile(Flower, anim_files)) => FlowerFramesFlipped

\* a map with metatile 0, animated from tile strips: its entry is there, and a
\* frame whose flipped quadrant differs from the unflipped one
C9_Witness ==
    /\ HasMetatileZero
    /\ ~IsMetatile(Flower, anim_files)
    /\ \E e \in 1..Len(animations) :
          /\ animations[e].id + FirstGid
               = DictGet(metatile_to_gid, <<0, PrimaryName, NORMAL, FALSE>>, 0)
          /\ \E f \in 1..Len(animations[e].animation) :
                FlipLR(FlowerSourceTile(f)) # FlowerSourceTile(f)

\* the slot ids in the cells of the three compiled planes
GridSlots ==
    {tiled_map.Ground[i] : i \in 1..(width * height)}
    \cup {tiled_map.Objects[i] : i \in 1..(width * height)}
    \cup {tiled_map.Overhead[i] : i \in 1..(width * height)}

\* tile id t lies in the range of an animation of the catalog
InCatalogRange(t) ==
    \E a \in 1..Len(AllAnimDefs) :
        t \in ActualBaseTileId(AllAnimDefs[a])
              ..(ActualBaseTileId(AllAnimDefs[a]) + AllAnimDefs[a].num_tiles - 1)

\* slot g is the slot of a half of the metatile of a cell, and that half
\* refers to a tile in the range of a catalog animation
ReferencedByMap(g) ==
    \E i \in 1..(width * height), top \in BOOLEAN :
        LET m == CellMetatile(EntryAt(map_entries, width, i - 1))
            tiles == DictGet(metatile_composition,
                             <<m[2], m[1], CellLayerType(i - 1)>>, <<>>)
        IN  /\ CellSlot(i - 1, top) = g
            /\ \E p \in 1..Len(tiles) :
                  /\ (p > 4) = top
                  /\ InCatalogRange(tiles[p][1])

\* C10: in the compiled map, every timeline entry is keyed by a slot that
\* occurs in a cell of the Ground, Objects or Overhead plane, and that slot is
\* of a metatile half of the map referring to a tile of a catalog animation's
\* range: animations no metatile of the map refers to leave no entry.
C10_EntriesKeyedByUsedSlots ==
    pc = "done" =>
        \A e \in 1..Len(animations) :
            /\ animations[e].id + FirstGid # 0
            /\ animations[e].id + FirstGid \in GridSlots
            /\ ReferencedByMap(animations[e].id + FirstGid)

\* a compiled map with an entry for the waterfall tiles of metatile 2 and no
\* entry for the flower animation, which no cell refers to, while a border
\* corner holds a metatile that is not on the map
C10_Witness ==
    /\ pc = "done"
    /\ Len(animations) = 2
    /\ \A i \in 1..(width * height) :
          extract_metatile_id(EntryAt(map_entries, width, i - 1)) = 2
    /\ Len(border_data) >= 4
(* ---------------------------------------------------------------------- *)
(* Error handling of the renderer                                          *)
(* ---------------------------------------------------------------------- *)
\* the bank and index a tile id names before any fallback
DirectBank(t) == IF t < NUM_TILES_IN_PRIMARY_VRAM THEN PrimaryName ELSE SecondaryName
DirectIndex(t) == IF t < NUM_TILES_IN_PRIMARY_VRAM THEN t ELSE t - NUM_TILES_IN_PRIMARY_VRAM

\* the raster of the named bank is missing or has no tile of that index
DirectFails(t) ==
    \/ ~HasTilesetImage(DirectBank(t), banks)
    \/ DirectIndex(t) > MaxTileId(DirectBank(t), banks)

\* the one retry: the primary bank at the offset t - 512 of a secondary tile
RetrySucceeds(t) ==
    /\ t >= NUM_TILES_IN_PRIMARY_VRAM
    /\ HasTilesetImage(PrimaryName, banks)
    /\ t - NUM_TILES_IN_PRIMARY_VRAM <= MaxTileId(PrimaryName, banks)

\* the four tile tuples with all but the idx-th replaced by the empty tile
OnlyQuadrant(tiles, idx) ==
    [i \in 1..4 |-> IF i = idx THEN tiles[i] ELSE <<0, 0, 0>>]

\* C11: a call of _render_tile_grid always returns an image; a quadrant whose
\* bank raster is missing or whose tile id is out of range is fully
\* transparent unless the tile was sourced from the secondary bank and the
\* primary bank has a tile at the same offset t - 512, in which case it shows
\* that tile and nothing else is tried; every quadrant looks as it does when
\* it is rendered alone, whatever happened to the other three.
C11_FailureStaysInQuadrant ==
    r_pc = "done" =>
        /\ grid_image # <<>>
        /\ \A idx \in 1..4 :
            LET ref == r_tiles[idx]
                quad == QuadOf(grid_image, idx)
            IN  /\ quad = QuadOf(render_tile_grid(OnlyQuadrant(r_tiles, idx),
                                                  PrimaryName, SecondaryName, banks), idx)
                /\ (ref[1] # 0 /\ DirectFails(ref[1]) /\ ~RetrySucceeds(ref[1]))
                      => quad = TransparentTile
                /\ (ref[1] # 0 /\ DirectFails(ref[1]) /\ RetrySucceeds(ref[1]))
                      => quad = QuadFrom(PrimaryName,
                                         ref[1] - NUM_TILES_IN_PRIMARY_VRAM,
                                         PaletteSource(ref[3], PrimaryName, SecondaryName),
                                         ref)

\* tile 530 is out of the range of the secondary raster and of the primary
\* raster at offset 18: its quadrant is transparent, the fourth one is drawn
C11_Witness ==
    /\ RenderDone
    /\ r_tiles[1][1] = 530
    /\ HasTilesetImage(SecondaryName, banks)
    /\ HasTilesetImage(PrimaryName, banks)
    /\ DirectFails(530)
    /\ ~RetrySucceeds(530)
    /\ QuadOf(grid_image, 1) = TransparentTile
    /\ QuadOf(grid_image, 4) # TransparentTile

(* ---------------------------------------------------------------------- *)
(* Error handling of a map's compilation                                   *)
(* ---------------------------------------------------------------------- *)
\* the grid has height rows of width entries each
GridWellFormed ==
    /\ Len(map_entries) = height
    /\ \A y \in 1..height : Len(map_entries[y]) = width

\* _load_tileset_data found the composition table of the primary bank
PrimaryBankUsable == PrimaryMetatiles # <<>>

\* C12: with a well-formed grid and a usable primary bank the compilation of
\* a map never fails, whatever layer-type values 0..15 the attribute table
\* holds and whatever else is missing, out of range or malformed.
C12_OnlyGridOrBankFails ==
    (GridWellFormed /\ PrimaryBankUsable) => pc # "failed"

\* a compilation that met a metatile whose layer-type value is not 0..2
C12_Witness ==
    /\ pc = "failed"
    /\ GridWellFormed
    /\ \E y \in 1..height, x \in 1..width :
          AttrGet(AttributesOf(CellMetatile(map_entries[y][x])[1]),
                  CellMetatile(map_entries[y][x])[2]) \notin LayerTypes

(* ---------------------------------------------------------------------- *)
(* Properties of the batch                                                 *)
(* ---------------------------------------------------------------------- *)
Submitted == b_pc \in {"results", "merged"}
Succeeded(m) ==
    /\ futures[m].state = "done"
    /\ ~futures[m].raised
    /\ futures[m].value[1] = "success"

\* the maps whose world data was collected
WorldDataMaps == {world_builder_data[i][1] : i \in 1..Len(world_builder_data)}

\* C13: whatever the outcomes of the submitted tasks and the order in which
\* they complete, every completed task's outcome is handled, none more than
\* once, the result loop ends, and at its end converted + skipped_layout +
\* skipped_other is the number of submitted maps; world_builder_data and the
\* used-tile aggregates hold contributions of successful tasks only.
C13_EveryOutcomeHandledOnce ==
    /\ <>(b_pc = "merged")
    /\ [](Submitted => \A m \in maps : handled[m] <= 1)
    /\ [](Submitted => converted + skipped_layout + skipped_other = Cardinality(yielded))
    /\ [](b_pc = "merged" =>
            /\ \A m \in maps : handled[m] = 1
            /\ converted + skipped_layout + skipped_other = Cardinality(maps))
    /\ [](Submitted =>
            /\ WorldDataMaps = {m \in yielded : Succeeded(m)}
            /\ Len(world_builder_data) = converted
            /\ converted = Cardinality({m \in yielded : Succeeded(m)})
            /\ all_used_tiles = {})
    /\ \A m \in MapIds :
          (Submitted /\ m \in maps /\ futures[m].state = "done") ~> (m \in yielded)

\* a finished batch of three maps: one converted, one skipped for its layout
\* and one whose future raised
C13_Witness ==
    /\ b_pc = "merged"
    /\ Cardinality(maps) = 3
    /\ converted = 1
    /\ skipped_layout = 1
    /\ skipped_other = 1
    /\ \E m \in maps : futures[m].raised
    /\ Len(world_builder_data) = 1

(* ---------------------------------------------------------------------- *)
(* Properties of the worker function                                       *)
(* ---------------------------------------------------------------------- *)
ResultStatuses == {"success", "skipped", "skipped_layout", "failed", "error"}

\* C14: a call of convert_single_map with a task tuple of main() returns a
\* 7-element result whose status is success, skipped, skipped_layout, failed
\* or error and which carries the map's id; no exception leaves the call.
C14_WorkerNeverRaises ==
    w_pc = "done" =>
        /\ ~w_out.raised
        /\ Len(w_out.value) = 7
        /\ w_out.value[1] \in ResultStatuses
        /\ w_out.value[2] = w_args[1]

\* a call with the 8-element tuple of main() that ended in an exception
C14_Witness ==
    /\ w_pc = "done"
    /\ Len(w_args) = 8
    /\ w_args = ConversionTask(w_args[1])
    /\ w_out.raised

C16_RemapPathsDisjoint ==
    \A a \in writes, b \in writes :
        (a.phase = "remap" /\ b.phase = "remap" /\ a.task # b.task) => a.path # b.path

(* ---------------------------------------------------------------------- *)
(* The plane grids and the atlas of a compiled map                         *)
(* ---------------------------------------------------------------------- *)
PlaneNames == {"Ground", "Objects", "Overhead"}

\* the GIDs of the two halves of the metatile of an entry of the grid
EntrySlots(entry) ==
    LET m == CellMetatile(entry)
        t == AttrGet(AttributesOf(m[1]), m[2])
    IN  {DictGet(metatile_to_gid, <<m[2], m[1], t, FALSE>>, 0),
         DictGet(metatile_to_gid, <<m[2], m[1], t, TRUE>>, 0)}

\* the image bytes image_to_gid holds for a GID
BytesOfGid(g) == {image_to_gid[i][1] : i \in {j \in 1..Len(image_to_gid) : image_to_gid[j][2] = g}}

\* C17: in a compiled map of width w and height h each of the three planes
\* has w*h cells, the cell of column x and row y at index y*w + x; a cell
\* holds 0 or a slot id handed out in this compilation (1 .. next_gid - 1, in
\* the dedup table) whose image is the atlas slot of that id.
C17_PlanesAndAtlas ==
    pc = "done" =>
        /\ \A p \in PlaneNames : Len(tiled_map[p]) = width * height
        /\ \A y \in 1..height, x \in 1..width :
              {tiled_map[p][(y - 1) * width + x] : p \in PlaneNames} \ {0}
                  = EntrySlots(map_entries[y][x]) \ {0}
        /\ \A p \in PlaneNames : \A i \in 1..(width * height) :
              LET g == tiled_map[p][i]
              IN  g # 0 =>
                    /\ g \in 1..(next_gid - 1)
                    /\ g \in DictValues(image_to_gid)
                    /\ g <= Len(tileset_image)
                    /\ BytesOfGid(g) = {ToBytes(tileset_image[g])}

\* a compiled 2x2 map whose rows differ from its columns, with at least
\* three slots, one of them not transparent
C17_Witness ==
    /\ pc = "done"
    /\ width = 2 /\ height = 2
    /\ map_entries[1][2] # map_entries[2][1]
    /\ next_gid > 3
    /\ \E i \in 1..4 : /\ tiled_map.Ground[i] # 0
                       /\ tileset_image[tiled_map.Ground[i]] # EmptyMetatileImage

(* ---------------------------------------------------------------------- *)
(* Border corners                                                          *)
(* ---------------------------------------------------------------------- *)
BorderProcessed ==
    /\ pc \in {"build_layers", "create_tileset", "build_animations", "create_map", "done"}
    /\ Len(border_data) >= 4

\* the metatile of a corner: <<tileset, id, layer type>>
CornerMetatile(corner_idx) ==
    LET m == determine_tileset_for_metatile(
                 border_data[corner_idx + 1] % (METATILE_ID_MASK + 1),
                 PrimaryName, SecondaryName)
    IN  <<m[1], m[2], AttrGet(AttributesOf(m[1]), m[2])>>

\* what process_single_metatile gives a grid cell holding the metatile of a
\* corner, from the tables as the border processing left them
AsGridCell(corner_idx) ==
    LET c == CornerMetatile(corner_idx)
    IN  process_single_metatile(c[2], c[1], MetatilesOf(c[1]), AttributesOf(c[1]), PrimaryName, SecondaryName, used_metatiles, image_to_gid, next_gid, banks)

\* C18: the bottom and top slot ids of every border corner are those a grid
\* cell holding the same metatile id gets from the same dedup table, also for
\* a metatile id outside the composition table, and every non-zero border
\* slot is a slot of the atlas.
C18_BorderLikeGridCell ==
    BorderProcessed =>
        \A corner_idx \in 0..3 :
            LET c == CornerMetatile(corner_idx)
                name == BorderCornerNames[corner_idx + 1]
                cellr == AsGridCell(corner_idx)
            IN  ~cellr.raised =>
                  /\ DictGet(border_gids, name, 0)
                       = DictGet(cellr.metatile_to_gid, <<c[2], c[1], c[3], FALSE>>, 0)
                  /\ DictGet(border_gids, name \o "_top", 0)
                       = DictGet(cellr.metatile_to_gid, <<c[2], c[1], c[3], TRUE>>, 0)
                  /\ pc = "done" =>
                        \A g \in {DictGet(border_gids, name, 0),
                                  DictGet(border_gids, name \o "_top", 0)} :
                            g # 0 => g <= Len(tileset_image)

\* a compiled map with a border corner whose metatile id lies outside the
\* composition table and which no grid cell holds
C18_Witness ==
    /\ pc = "done"
    /\ Len(border_data) >= 4
    /\ \E corner_idx \in 0..3 :
          LET c == CornerMetatile(corner_idx)
          IN  /\ ~validate_metatile_bounds(c[2], MetatilesOf(c[1]))
              /\ c[3] \in LayerTypes
              /\ DictGet(border_gids, BorderCornerNames[corner_idx + 1], 0) = 0

\* the corners whose metatile lies inside the composition table do get the
\* slot ids of a grid cell, and their slots are in the atlas
C18_InBoundsBorderLikeGridCell ==
    BorderProcessed =>
        \A corner_idx \in 0..3 :
            LET c == CornerMetatile(corner_idx)
                name == BorderCornerNames[corner_idx + 1]
                cellr == AsGridCell(corner_idx)
            IN  (~cellr.raised /\ validate_metatile_bounds(c[2], MetatilesOf(c[1]))
                   /\ DictHas(border_gids, name)) =>
                  /\ DictGet(border_gids, name, 0)
                       = DictGet(cellr.metatile_to_gid, <<c[2], c[1], c[3], FALSE>>, 0)
                  /\ DictGet(border_gids, name \o "_top", 0)
                       = DictGet(cellr.metatile_to_gid, <<c[2], c[1], c[3], TRUE>>, 0)
                  /\ DictGet(border_gids, name, 0) # 0

(* ---------------------------------------------------------------------- *)
(* Reading the grid file                                                   *)
(* ---------------------------------------------------------------------- *)
\* number of whole 16-bit records of the grid file
RecordCount == Len(map_bin) \div 2
\* record k (0-based) of the grid file, little-endian
RecordAt(k) == map_bin[2 * k + 1] + 256 * map_bin[2 * k + 2]
ReadDone == rd_out # <<>>
HalvedFits ==
    /\ layout_width \div 2 > 0
    /\ layout_height \div 2 > 0
    /\ RecordCount = (layout_width \div 2) * (layout_height \div 2)

\* C19: read_map_bin fails exactly when the number of 16-bit records of the
\* grid file differs from width*height; after that failure the map is
\* compiled with the halved dimensions if the record count is their product
\* and both are positive, and otherwise the compilation fails without a grid;
\* a grid that is produced holds every record of the file, row by row.
C19_ReadOrRecoverOrFail ==
    ReadDone =>
        /\ (rd_out.first # "") <=> (RecordCount # layout_width * layout_height)
        /\ rd_out.status \in {"ok", "none"}
        /\ rd_out.first = "" =>
              /\ rd_out.status = "ok"
              /\ width = layout_width
              /\ height = layout_height
        /\ (rd_out.first # "" /\ HalvedFits) =>
              /\ rd_out.status = "ok"
              /\ width = layout_width \div 2
              /\ height = layout_height \div 2
        /\ (rd_out.first # "" /\ ~HalvedFits) =>
              /\ rd_out.status = "none"
              /\ pc = "failed"
              /\ map_entries = <<>>
              /\ layers = <<>>
        /\ rd_out.status = "ok" =>
              /\ width * height = RecordCount
              /\ Len(map_entries) = height
              /\ \A y \in 1..height :
                    /\ Len(map_entries[y]) = width
                    /\ \A x \in 1..width :
                          map_entries[y][x] = RecordAt((y - 1) * width + (x - 1))
              /\ pc = "done" =>
                    /\ \A p \in PlaneNames : Len(tiled_map[p]) = width * height
                    /\ \A y \in 1..height, x \in 1..width :
                          {tiled_map[p][(y - 1) * width + x] : p \in PlaneNames} \ {0}
                              = EntrySlots(RecordAt((y - 1) * width + (x - 1))) \ {0}

\* a map whose layout gives twice the dimensions of its grid file has been
\* compiled
C19_Witness ==
    /\ ReadDone
    /\ rd_out.first = "ValueError"
    /\ rd_out.status = "ok"
    /\ pc = "done"
    /\ width = 2
    /\ layout_width = 4
    /\ RecordAt(0) # RecordAt(1)

(* ---------------------------------------------------------------------- *)
(* Halves without animated tiles                                           *)
(* ---------------------------------------------------------------------- *)
\* the tile id lies in the tile-id range of an animation of the catalog
InAnimationRange(tile_id) ==
    \E i \in 1..Len(AllAnimDefs) :
        tile_id \in ActualBaseTileId(AllAnimDefs[i])
                    ..(ActualBaseTileId(AllAnimDefs[i]) + AllAnimDefs[i].num_tiles - 1)

\* the 4 tiles of a half of the metatile of an entry of the grid (<<>> when
\* the composition table does not hold the metatile)
HalfTiles(entry, top) ==
    LET m == CellMetatile(entry)
        Half(tiles) ==
            IF Len(tiles) # NUM_TILES_PER_METATILE THEN <<>>
            ELSE IF top THEN SubSeq(tiles, 5, 8) ELSE SubSeq(tiles, 1, 4)
    IN  Half(Slice(MetatilesOf(m[1]), m[2] * NUM_TILES_PER_METATILE, NUM_TILES_PER_METATILE))

StaticHalf(entry, top) ==
    /\ HalfTiles(entry, top) # <<>>
    /\ \A i \in 1..4 : ~InAnimationRange(HalfTiles(entry, top)[i][1])

\* the GID of a half of the metatile of an entry of the grid
HalfGid(entry, top) ==
    LET m == CellMetatile(entry)
    IN  DictGet(metatile_to_gid, <<m[2], m[1], AttrGet(AttributesOf(m[1]), m[2]), top>>, 0)

HasTimeline(gid) == \E i \in 1..Len(animations) : animations[i].id = gid - 1

\* C20: the slot placed in a plane for a half of a metatile none of whose 4
\* tiles lies in the tile-id range of an animation of the catalog has no
\* timeline entry, also when an animated half of another metatile of the map
\* has the same static pixels.
C20_StaticHalfNotAnimated ==
    pc = "done" =>
        \A y \in 1..height, x \in 1..width : \A top \in BOOLEAN :
            (StaticHalf(map_entries[y][x], top) /\ HalfGid(map_entries[y][x], top) # 0)
                => ~HasTimeline(HalfGid(map_entries[y][x], top))

\* a compiled map with a static half and an animated half of another
\* metatile in the same slot, the slot having a timeline entry
C20_Witness ==
    /\ pc = "done"
    /\ \E y1 \in 1..height, x1 \in 1..width, y2 \in 1..height, x2 \in 1..width :
          /\ CellMetatile(map_entries[y1][x1]) # CellMetatile(map_entries[y2][x2])
          /\ StaticHalf(map_entries[y1][x1], FALSE)
          /\ ~StaticHalf(map_entries[y2][x2], FALSE)
          /\ HalfTiles(map_entries[y2][x2], FALSE) # <<>>
          /\ HalfGid(map_entries[y1][x1], FALSE) = HalfGid(map_entries[y2][x2], FALSE)
          /\ HalfGid(map_entries[y1][x1], FALSE) # 0
          /\ HasTimeline(HalfGid(map_entries[y2][x2], FALSE))

\* a static half whose slot is the slot of no animated half of the map has
\* no timeline entry
C20_StaticHalfOfOwnSlot ==
    pc = "done" =>
        \A y \in 1..height, x \in 1..width : \A top \in BOOLEAN :
            (/\ StaticHalf(map_entries[y][x], top)
             /\ HalfGid(map_entries[y][x], top) # 0
             /\ \A y2 \in 1..height, x2 \in 1..width : \A top2 \in BOOLEAN :
                   HalfGid(map_entries[y2][x2], top2) = HalfGid(map_entries[y][x], top)
                       => StaticHalf(map_entries[y2][x2], top2))
                => ~HasTimeline(HalfGid(map_entries[y][x], top))

(* ---------------------------------------------------------------------- *)
(* Timelines of the two halves of a metatile                               *)
(* ---------------------------------------------------------------------- *)
\* the (id, tileset, layer type) keys of the metatiles of the cells of the map
CellKeys ==
    {<<CellMetatile(EntryAt(map_entries, width, i - 1))[2],
       CellMetatile(EntryAt(map_entries, width, i - 1))[1],
       CellLayerType(i - 1)>> : i \in 1..(width * height)}

\* animation a of the catalog hits position p (0..7) of the metatile of key k:
\* the tile at p is recorded under the bank of the animation and lies in its
\* tile-id range, and the animation has frames
HitsAt(k, p, a) ==
    LET tiles == DictGet(metatile_composition, k, <<>>)
        anim == AllAnimDefs[a]
    IN  /\ Len(tiles) = NUM_TILES_PER_METATILE
        /\ tiles[p + 1][1] \in ActualBaseTileId(anim)
                               ..(ActualBaseTileId(anim) + anim.num_tiles - 1)
        /\ determine_tileset_for_tile(tiles[p + 1][1], k[2], PrimaryName, SecondaryName)[1]
             = anim.base_tileset
        /\ NumFrameImages(anim, anim_files) > 0

HalfPositions(top) == IF top THEN 4..7 ELSE 0..3

\* the <<position, animation>> hits of one half of the metatile of key k
HalfHits(k, top) ==
    {h \in HalfPositions(top) \X (1..Len(AllAnimDefs)) : HitsAt(k, h[1], h[2])}

KeyGid(k, top) == DictGet(metatile_to_gid, k \o <<top>>, 0)

\* the timeline entries keyed by slot g
EntriesOf(g) == {e \in 1..Len(animations) : animations[e].id + FirstGid = g}

\* the half has a hit of an animation with pre-rendered 16x16 frames
HasPreRendered(k, top) ==
    \E h \in HalfHits(k, top) : IsMetatile(AllAnimDefs[h[2]], anim_files)

\* every frame of entry e shows the static composite of the half in the
\* quadrants no animation of that half hits
OwnHalfOnly(e, k, top) ==
    \A f \in 1..Len(animations[e].animation) :
        \A q \in 1..4 :
            (\A h \in HalfHits(k, top) : h[1] % 4 # q - 1) =>
                QuadOf(tileset_image[animations[e].animation[f].tileid + 1], q)
                  = QuadOf(HalfImage(k \o <<top>>), q)

BothHalvesAnimated(k) ==
    /\ HalfHits(k, FALSE) # {}
    /\ HalfHits(k, TRUE) # {}
    /\ KeyGid(k, FALSE) # KeyGid(k, TRUE)
    /\ KeyGid(k, FALSE) # 0
    /\ KeyGid(k, TRUE) # 0

TwoTimelines(k) ==
    /\ \E e \in EntriesOf(KeyGid(k, FALSE)) :
          HasPreRendered(k, FALSE) \/ OwnHalfOnly(e, k, FALSE)
    /\ \E e \in EntriesOf(KeyGid(k, TRUE)) :
          HasPreRendered(k, TRUE) \/ OwnHalfOnly(e, k, TRUE)

\* C21: a metatile of the map whose two halves both hold animated tiles and
\* have different slots gets two timeline entries, one keyed by the slot of
\* its bottom half and one by the slot of its top half, each showing only the
\* animations of its own half, whether the animations of the halves have
\* tile-strip or pre-rendered frames.
C21_TwoTimelines ==
    pc = "done" => \A k \in CellKeys : BothHalvesAnimated(k) => TwoTimelines(k)

\* a compiled map with metatile 512, whose bottom half holds a windy-water
\* tile and whose top half a tile of the flower animation, stored as
\* pre-rendered frames
C21_Witness ==
    /\ pc = "done"
    /\ <<0, SecondaryName, NORMAL>> \in CellKeys
    /\ BothHalvesAnimated(<<0, SecondaryName, NORMAL>>)
    /\ HasPreRendered(<<0, SecondaryName, NORMAL>>, TRUE)
    /\ ~HasPreRendered(<<0, SecondaryName, NORMAL>>, FALSE)
    /\ EntriesOf(KeyGid(<<0, SecondaryName, NORMAL>>, TRUE)) # {}

\* with tile-strip frames only, both halves get their timeline entry
C21_TwoStripTimelines ==
    (pc = "done" /\ anim_files = {}) =>
        \A k \in CellKeys : BothHalvesAnimated(k) => TwoTimelines(k)

(* ---------------------------------------------------------------------- *)
(* Frame counts                                                            *)
(* ---------------------------------------------------------------------- *)
\* length of the playback order of an animation: its explicit order, or the
\* linear order over its frames
OrderLength(anim) ==
    IF anim.frame_sequence # <<>> THEN Len(anim.frame_sequence) ELSE anim.files

\* the largest playback-order length among the animations hitting one half
HalfFrameCount(k, top) ==
    LET lens == {OrderLength(AllAnimDefs[h[2]]) : h \in HalfHits(k, top)}
    IN  CHOOSE n \in lens : \A l \in lens : l <= n

AnimatedHalf(k, top) == HalfHits(k, top) # {} /\ KeyGid(k, top) # 0

\* C22: the timeline of an animated half has as many frames as the longest
\* playback order among the animations hitting that half (the linear order
\* over its frames for an animation without explicit order); the animations
\* of the other half do not count.
C22_FrameCountOfOwnHalf ==
    pc = "done" =>
        \A k \in CellKeys : \A top \in BOOLEAN :
            AnimatedHalf(k, top) =>
                \A e \in EntriesOf(KeyGid(k, top)) :
                    Len(animations[e].animation) = HalfFrameCount(k, top)

\* a compiled map with metatile 512 and tile-strip frames: its bottom half is
\* hit by windy water alone (2 frames), its top half also by the flower
\* animation (playback order of length 4), and both halves have an entry
C22_Witness ==
    /\ pc = "done"
    /\ anim_files = {}
    /\ <<0, SecondaryName, NORMAL>> \in CellKeys
    /\ HalfFrameCount(<<0, SecondaryName, NORMAL>>, FALSE) = 2
    /\ HalfFrameCount(<<0, SecondaryName, NORMAL>>, TRUE) = 4
    /\ EntriesOf(KeyGid(<<0, SecondaryName, NORMAL>>, FALSE)) # {}
    /\ EntriesOf(KeyGid(<<0, SecondaryName, NORMAL>>, TRUE)) # {}

\* the longest playback order among the animations hitting either half
MetatileFrameCount(k) ==
    LET lens == {OrderLength(AllAnimDefs[h[2]]) :
                    h \in HalfHits(k, FALSE) \cup HalfHits(k, TRUE)}
    IN  CHOOSE n \in lens : \A l \in lens : l <= n

\* with tile-strip frames only, the timelines of both halves have as many
\* frames as the longest playback order among the animations of the metatile
C22_FrameCountOfMetatile ==
    (pc = "done" /\ anim_files = {}) =>
        \A k \in CellKeys : \A top \in BOOLEAN :
            AnimatedHalf(k, top) =>
                \A e \in EntriesOf(KeyGid(k, top)) :
                    Len(animations[e].animation) = MetatileFrameCount(k)

(* ---------------------------------------------------------------------- *)
(* Merged tile-strip animations                                            *)
(* ---------------------------------------------------------------------- *)
\* the playback order of an animation, linear when none is declared
PlaybackOrder(anim) ==
    IF anim.frame_sequence # <<>> THEN anim.frame_sequence
    ELSE [i \in 1..anim.files |-> i - 1]

\* the tile of step k of the tile-strip animation a for the tile at position
\* p of the metatile of key k: frame order[step mod L] of the strip, flipped
\* as the static tile is
StepTile(k, p, a, step) ==
    LET anim == AllAnimDefs[a]
        t == DictGet(metatile_composition, k, <<>>)[p + 1]
        order == PlaybackOrder(anim)
        fr == order[(step % Len(order)) + 1]
    IN  FlipTile(FrameImage(anim, fr * anim.num_tiles + (t[1] - ActualBaseTileId(anim)),
                            anim_files),
                 t[2])

\* quadrant q (1..4) of step k of a half: the step tile of the animation
\* hitting the quadrant over the static composite, or the static composite
StepQuadrant(k, top, q, step) ==
    LET p == (IF top THEN 4 ELSE 0) + q - 1
        static == QuadOf(HalfImage(k \o <<top>>), q)
        hits == {h \in HalfHits(k, top) : h[1] = p}
    IN  IF hits = {} THEN static
        ELSE Paste(static, StepTile(k, p, (CHOOSE h \in hits : TRUE)[2], step), 0, 0)

StripOnly(k) == ~HasPreRendered(k, FALSE) /\ ~HasPreRendered(k, TRUE)

\* C23: in the timeline of a half hit by tile-strip animations only, frame k
\* shows in every animated quadrant frame order[k mod L] of the animation
\* hitting it, L the length of that animation's own playback order, drawn
\* over the static composite, and the static composite in the other quadrants.
C23_ShorterLoopsInLonger ==
    pc = "done" =>
        \A k \in CellKeys : \A top \in BOOLEAN :
            (StripOnly(k) /\ AnimatedHalf(k, top)) =>
                \A e \in EntriesOf(KeyGid(k, top)) :
                    \A f \in 1..Len(animations[e].animation) : \A q \in 1..4 :
                        QuadOf(tileset_image[animations[e].animation[f].tileid + 1], q)
                          = StepQuadrant(k, top, q, f - 1)

\* a compiled map with metatile 512 and tile-strip frames: in its top half
\* windy water (2 frames) and flower (order of length 4) hit different
\* quadrants, and the windy-water quadrant differs between steps 0 and 1
C23_Witness ==
    /\ pc = "done"
    /\ anim_files = {}
    /\ <<0, SecondaryName, NORMAL>> \in CellKeys
    /\ {h[2] : h \in HalfHits(<<0, SecondaryName, NORMAL>>, TRUE)} = {1, 3}
    /\ \E e \in EntriesOf(KeyGid(<<0, SecondaryName, NORMAL>>, TRUE)) :
          /\ Len(animations[e].animation) = 4
          /\ StepQuadrant(<<0, SecondaryName, NORMAL>>, TRUE, 1, 0)
               # StepQuadrant(<<0, SecondaryName, NORMAL>>, TRUE, 1, 1)
          /\ StepQuadrant(<<0, SecondaryName, NORMAL>>, TRUE, 1, 2)
               = StepQuadrant(<<0, SecondaryName, NORMAL>>, TRUE, 1, 0)

(* ---------------------------------------------------------------------- *)
(* Pre-rendered 16x16 frames                                               *)
(* ---------------------------------------------------------------------- *)
\* the first animation in catalog order, among those with pre-rendered
\* frames that hit the half
FirstPreRendered(k, top) ==
    LET as == {h[2] : h \in {h \in HalfHits(k, top) :
                                IsMetatile(AllAnimDefs[h[2]], anim_files)}}
    IN  AllAnimDefs[CHOOSE a \in as : \A b \in as : a <= b]

\* the frames of entry e are the whole 16x16 frames of the animation, in its
\* playback order, each on a slot that was transparent
PreRenderedEntry(e, anim) ==
    /\ Len(animations[e].animation) = Len(PlaybackOrder(anim))
    /\ \A f \in 1..Len(animations[e].animation) :
          tileset_image[animations[e].animation[f].tileid + 1]
            = Paste(EmptyMetatileImage,
                    FrameImage(anim, PlaybackOrder(anim)[f], anim_files), 0, 0)

\* the frames of entry e are those of the tile-strip animations of the half
StripEntry(e, k, top) ==
    \A f \in 1..Len(animations[e].animation) : \A q \in 1..4 :
        QuadOf(tileset_image[animations[e].animation[f].tileid + 1], q)
          = StepQuadrant(k, top, q, f - 1)

\* the half with pre-rendered frames shows the first of its animations
FirstPreRenderedApplies(k, top) ==
    /\ Cardinality(EntriesOf(KeyGid(k, top))) = 1
    /\ \A e \in EntriesOf(KeyGid(k, top)) :
          PreRenderedEntry(e, FirstPreRendered(k, top))

\* the other half keeps the timeline of its tile-strip animations
OtherHalfUnaffected(k, top) ==
    (/\ AnimatedHalf(k, ~top)
     /\ ~HasPreRendered(k, ~top)
     /\ KeyGid(k, ~top) # KeyGid(k, top)) =>
        \E e \in EntriesOf(KeyGid(k, ~top)) : StripEntry(e, k, ~top)

\* C24: a half hit by animations with pre-rendered 16x16 frames shows exactly
\* one of them, the first in catalog order, whose frames replace the whole
\* composite at every step; the other half and the tile-strip animations
\* hitting it are not affected.
C24_FirstPreRenderedOnly ==
    pc = "done" =>
        \A k \in CellKeys : \A top \in BOOLEAN :
            (HasPreRendered(k, top) /\ KeyGid(k, top) # 0) =>
                /\ FirstPreRenderedApplies(k, top)
                /\ OtherHalfUnaffected(k, top)

\* a compiled map with metatile 512 whose top half is hit by two animations
\* with pre-rendered frames, flower and windy water, and shows the flower
\* frames
C24_Witness ==
    /\ pc = "done"
    /\ anim_files = {"flower", "windy_water"}
    /\ <<0, SecondaryName, NORMAL>> \in CellKeys
    /\ {h[2] : h \in HalfHits(<<0, SecondaryName, NORMAL>>, TRUE)} = {1, 3}
    /\ FirstPreRenderedApplies(<<0, SecondaryName, NORMAL>>, TRUE)

\* a half with pre-rendered frames shows the first of its animations when
\* the other half of the metatile has no animation with pre-rendered frames
C24_FirstOfMetatile ==
    pc = "done" =>
        \A k \in CellKeys : \A top \in BOOLEAN :
            (/\ HasPreRendered(k, top)
             /\ KeyGid(k, top) # 0
             /\ ~HasPreRendered(k, ~top)) =>
                FirstPreRenderedApplies(k, top)

(* ---------------------------------------------------------------------- *)
(* Cells outside the composition table                                     *)
(* ---------------------------------------------------------------------- *)
\* the 8 records of the metatile of cell idx (from 0) do not all lie inside
\* the composition table of its bank
OobCell(idx) ==
    LET m == CellMetatile(EntryAt(map_entries, width, idx))
        n == Len(MetatilesOf(m[1]))
    IN  ~(m[2] * 8 + 8 <= n)

\* the slot of the fully transparent 16x16 composite
TransparentSlot == DictGet(image_to_gid, ToBytes(EmptyMetatileImage), 0)

\* the cells that are out of the table have the transparent slot in both
\* halves, as every transparent composite of the map has
OobCellsTransparent ==
    /\ \A i \in 1..(width * height) :
          OobCell(i - 1) =>
              /\ TransparentSlot # 0
              /\ CellSlot(i - 1, FALSE) = TransparentSlot
              /\ CellSlot(i - 1, TRUE) = TransparentSlot
    /\ \A j \in 1..Len(metatile_to_gid) :
          (/\ HalfImage(metatile_to_gid[j][1]) = EmptyMetatileImage
           /\ \E i \in 1..(width * height) : OobCell(i - 1))
              => metatile_to_gid[j][2] = TransparentSlot

\* the cells inside the table have the composites of their own 8 records
OtherCellsDecoded ==
    \A i \in 1..(width * height) :
        ~OobCell(i - 1) =>
            LET m == CellMetatile(EntryAt(map_entries, width, i - 1))
                k == <<m[2], m[1], CellLayerType(i - 1)>>
            IN  DictGet(used_metatiles, k, <<>>)
                  = RenderedPair(render_metatile(
                        Slice(MetatilesOf(m[1]), m[2] * 8, 8),
                        PrimaryName, SecondaryName, k[3], banks))

\* C25: a cell whose metatile id addresses records outside the composition
\* table of its bank does not abort the compilation; both halves of the cell
\* get the slot of the fully transparent composite, the slot every other
\* transparent composite of the map has, and the other cells are decoded as
\* without it.
C25_OutOfTableCellTransparent ==
    /\ (pc = "failed" /\ cell < width * height) => ~OobCell(cell)
    /\ pc = "done" => (OobCellsTransparent /\ OtherCellsDecoded)

\* a compiled map with a cell outside the composition table and a cell of
\* the transparent metatile 5, which is inside it, in the same slot
C25_Witness ==
    /\ pc = "done"
    /\ \E i, j \in 1..(width * height) :
          /\ OobCell(i - 1)
          /\ ~OobCell(j - 1)
          /\ CellSlot(j - 1, FALSE) = CellSlot(i - 1, FALSE)
          /\ CellSlot(j - 1, TRUE) = TransparentSlot

\* a cell outside the composition table whose attribute is a layer type does
\* not abort the compilation, and the rest as in C25
C25_ValidLayerTypeTransparent ==
    /\ (pc = "failed" /\ cell < width * height /\ CellLayerType(cell) \in LayerTypes)
           => ~OobCell(cell)
    /\ pc = "done" => (OobCellsTransparent /\ OtherCellsDecoded)

(* ---------------------------------------------------------------------- *)
(* Durations of the animations                                             *)
(* ---------------------------------------------------------------------- *)
\* i * 1000 / 60 rounded to the nearest millisecond
NearestMs(i) == (2 * i * 1000 + FramesPerSecond) \div (2 * FramesPerSecond)

\* the update interval tileset_anims.c gives for animation a of ScanAnims
ParsedInterval(a) == IF anims_c.exists THEN anims_c.interval[a] ELSE 0

\* the duration extract_all_animation_tiles gave for animation a of ScanAnims
UsedDuration(a) == DictGet(anim_result, ScanAnims[a], 0)

\* the duration the catalog declares for animation a of ScanAnims
CatalogDuration(a) == GeneralAnimations[a].duration_ms

\* C26: an animation with a parsed update interval of i frames has a frame
\* duration of i * 1000 / 60 rounded to the nearest millisecond (16 frames:
\* 267 ms); an animation without interval metadata has the duration its
\* catalog entry declares.
C26_DurationRoundedToNearest ==
    sc_pc = "extracted" =>
        \A a \in 1..Len(ScanAnims) :
            UsedDuration(a) = IF ParsedInterval(a) > 0 THEN NearestMs(ParsedInterval(a))
                              ELSE CatalogDuration(a)

\* the scanner gave the durations of an animation with an interval of 16
\* frames and of an animation without interval metadata
C26_Witness ==
    /\ sc_pc = "extracted"
    /\ ParsedInterval(1) = 16
    /\ anims_c.frames[1] > 0
    /\ ParsedInterval(2) = 0
    /\ anims_c.frames[2] < 0
    /\ UsedDuration(2) = CatalogDuration(2)

\* an animation with a frame array has the duration of its interval, 16 when
\* no call gives one, cut to whole milliseconds; the others have the duration
\* of the catalog
C26_DurationTruncated ==
    sc_pc = "extracted" =>
        \A a \in 1..Len(ScanAnims) :
            UsedDuration(a) =
                IF anims_c.exists /\ anims_c.frames[a] > 0
                THEN ((IF ParsedInterval(a) > 0 THEN ParsedInterval(a) ELSE DefaultInterval)
                          * 1000) \div FramesPerSecond
                ELSE CatalogDuration(a)

(* ---------------------------------------------------------------------- *)
(* The caches of the renderer                                              *)
(* ---------------------------------------------------------------------- *)
\* the calls on the cache of the last call that came before it
EarlierCalls ==
    LET c == IF last_call.cache = "tileset" THEN calls.tileset ELSE calls.palette
    IN  SubSeq(c, 1, Len(c) - 1)

\* the position of the last load or hit of a name among the earlier calls
LastUse(name) ==
    LET c == EarlierCalls
    IN  CHOOSE i \in 0..Len(c) :
            /\ i > 0 => c[i] = name
            /\ \A j \in (i + 1)..Len(c) : c[j] # name

\* the cache of the last call, as the call left it
CacheAfter == IF last_call.cache = "tileset" THEN tileset_cache ELSE palette_cache

\* an eviction takes out one entry, the one whose last use is the oldest
EvictsLeastRecentlyUsed ==
    last_call.evicted # {} =>
        \E e \in CacheKeys(last_call.before) :
            /\ last_call.evicted = {e}
            /\ \A o \in CacheKeys(last_call.before) : LastUse(e) <= LastUse(o)

\* a hit gives what the cache remembered and makes the entry the newest
HitReturnsRemembered ==
    /\ last_call.hit <=> last_call.name \in CacheKeys(last_call.before)
    /\ last_call.hit =>
          /\ last_call.result = DictGet(last_call.before, last_call.name, <<>>)
          /\ CacheAfter[Len(CacheAfter)] = <<last_call.name, last_call.result>>
          /\ last_call.evicted = {}

\* C27: after any sequence of load_tileset_image and
\* load_tileset_palettes_cached calls each cache holds at most max_cache_size
\* entries; an insertion that evicts takes out the least recently used entry;
\* a hit, also on a remembered 'not found', returns the remembered result
\* and makes the entry the most recently used.
C27_BoundedLruCaches ==
    /\ Len(tileset_cache) <= max_cache_size
    /\ Len(palette_cache) <= max_cache_size
    /\ last_call.cache # "none" => (EvictsLeastRecentlyUsed /\ HitReturnsRemembered)

\* a load evicted an entry of a full cache after a hit on another entry, and
\* a hit on a remembered 'not found'
C27_Witness ==
    /\ last_call.cache = "tileset"
    /\ last_call.evicted # {}
    /\ Len(last_call.before) = 2
    /\ LET c == EarlierCalls
       IN  /\ Len(c) >= 3
           /\ c[Len(c)] = c[Len(c) - 2]
           /\ c[Len(c)] = "nowhere"
           /\ c[Len(c)] # c[Len(c) - 1]

(* ---------------------------------------------------------------------- *)
(* The slots handed out and the atlas                                      *)
(* ---------------------------------------------------------------------- *)
\* the non-zero slot ids of the border corners
BorderSlots == DictValues(border_gids) \ {0}

\* the slot ids handed out during the compilation
AssignedSlots == 1..(next_gid - 1)

\* the atlas holds the image of slot g at position g - 1
AtlasHolds(g) ==
    /\ g <= Len(tileset_image)
    /\ BytesOfGid(g) = {ToBytes(tileset_image[g])}

\* C28: in a compiled map the slot ids of the three planes together with the
\* non-zero slot ids of the border corners are exactly the slot ids handed
\* out, 1..N without gaps, and the atlas holds the image of every slot g at
\* position g - 1.
C28_SlotsAreAtlasPositions ==
    pc = "done" =>
        /\ (GridSlots \ {0}) \cup BorderSlots = AssignedSlots
        /\ \A g \in AssignedSlots : AtlasHolds(g)

\* a compiled map whose border corners hold a metatile that is not on the
\* map, so that a slot is handed out for the border alone
C28_Witness ==
    /\ pc = "done"
    /\ BorderSlots \ GridSlots # {}
    /\ GridSlots \ BorderSlots # {}

(* ---------------------------------------------------------------------- *)
(* The atlas positions of the animation frames                             *)
(* ---------------------------------------------------------------------- *)
\* the number of static tiles of the atlas: one per used GID
StaticTiles == Cardinality(layers.used_gids)

\* the metatiles of the map a catalog animation hits
AnimatedKeys == {k \in CellKeys : HalfHits(k, FALSE) \cup HalfHits(k, TRUE) # {}}

\* the number of frames generated for the metatile of key k: the frame files
\* of its first pre-rendered animation, or one composite per step for the
\* bottom half and, when the top half is hit, one per step for the top half
FramesGeneratedFor(k) ==
    IF ~StripOnly(k)
    THEN LET as == {h[2] : h \in {h \in HalfHits(k, FALSE) \cup HalfHits(k, TRUE) :
                                     IsMetatile(AllAnimDefs[h[2]], anim_files)}}
         IN  NumFrameImages(AllAnimDefs[CHOOSE a \in as : \A b \in as : a <= b],
                            anim_files)
    ELSE MetatileFrameCount(k) * (IF HalfHits(k, TRUE) # {} THEN 2 ELSE 1)

RECURSIVE FramesGenerated(_)
FramesGenerated(keys) ==
    IF keys = {} THEN 0
    ELSE LET k == CHOOSE x \in keys : TRUE
         IN  FramesGeneratedFor(k) + FramesGenerated(keys \ {k})

\* the frames of entry e are the frames generated for a half of a metatile of
\* the map that has the slot of the entry
FramesOfGeneratingHalf(e) ==
    \E k \in AnimatedKeys : \E top \in BOOLEAN :
        /\ HalfHits(k, top) # {}
        /\ KeyGid(k, top) = animations[e].id + FirstGid
        /\ IF StripOnly(k) THEN StripEntry(e, k, top)
           ELSE \E h \in HalfHits(k, top) :
                    /\ IsMetatile(AllAnimDefs[h[2]], anim_files)
                    /\ PreRenderedEntry(e, AllAnimDefs[h[2]])

\* C29: every animation frame is written to an atlas position of its own at
\* or after the number of static tiles, every (tileid, duration) of a timeline
\* names the position that holds the frame generated for that step, and no
\* static tile is overwritten.
C29_FramesAfterStaticTiles ==
    pc \in {"create_map", "done"} =>
        /\ Len(tileset_image) = StaticTiles + FramesGenerated(AnimatedKeys)
        /\ \A g \in layers.used_gids : AtlasHolds(g)
        /\ \A e \in 1..Len(animations) :
              /\ \A f \in 1..Len(animations[e].animation) :
                    animations[e].animation[f].tileid \in StaticTiles..(Len(tileset_image) - 1)
              /\ FramesOfGeneratingHalf(e)

\* a compiled map with static tiles and the frames of two animated metatiles,
\* one with pre-rendered frames and one with composited strip frames
C29_Witness ==
    /\ pc = "done"
    /\ StaticTiles >= 3
    /\ \E k, l \in AnimatedKeys : ~StripOnly(k) /\ StripOnly(l)
    /\ Len(animations) >= 2

(* ---------------------------------------------------------------------- *)
(* One timeline per slot                                                   *)
(* ---------------------------------------------------------------------- *)
\* the entries as PHASE 2 appended them, before the deduplication
ProducedAnimations ==
    AnimateMetatiles(
        [slots |-> SubSeq(tileset_image, 1, StaticTiles), animations |-> <<>>],
        CollectAnimations(<<>>, AllAnimDefs, tile_id_to_gids, layers.used_gids, anim_files),
        used_metatiles, metatile_composition, layers.used_gids, anim_files).animations

\* the first entry produced for slot id i
FirstProduced(produced, i) ==
    produced[CHOOSE e \in 1..Len(produced) :
                 /\ produced[e].id = i
                 /\ \A j \in 1..(e - 1) : produced[j].id # i]

\* C30: the returned timeline list has at most one entry per slot id; of the
\* entries produced for a slot that several animated halves share, the first
\* one is kept, with its frame list as it was produced.
C30_OneTimelinePerSlot ==
    pc \in {"create_map", "done"} =>
        /\ \A e, f \in 1..Len(animations) :
              animations[e].id = animations[f].id => e = f
        /\ \E produced \in {ProducedAnimations} :
              /\ {produced[e].id : e \in 1..Len(produced)}
                   = {animations[e].id : e \in 1..Len(animations)}
              /\ \A e \in 1..Len(animations) :
                    animations[e] = FirstProduced(produced, animations[e].id)

\* two entries with different frame lists were produced for one slot
C30_Witness ==
    /\ pc = "done"
    /\ \E produced \in {ProducedAnimations} :
          \E e, f \in 1..Len(produced) :
              /\ e < f
              /\ produced[e].id = produced[f].id
              /\ produced[e].animation # produced[f].animation

====
